---- MODULE Spec2Model ----
(***************************************************************************)
(* A model of the Durak simulator: durak.py (main, playGame, getPlayOrder) *)
(* and player.py (Player, RandomCPUPlayer, SimpleCPUPlayer,                *)
(* ReflexCPUPlayer, extractFeatures, logisticValue).                       *)
(*                                                                         *)
(* Python lists are sequences; Python index i is sequence index i + 1, so  *)
(* table[0] (the top card) is table[1] here.  Selectors return Python      *)
(* indices (0-based, -1 the stop sentinel).                                *)
(***************************************************************************)
EXTENDS Integers, Sequences, FiniteSets, TLC

VARIABLES
    pc,              \* position in main / playGame, or of a direct call
    train,           \* args.train
    playerType,      \* args.player
    numGames,        \* args.numGames
    gameNo,          \* the loop variable i of main
    deck,            \* playGame's deck; deck[1] is the bottom, the last the top
    trumpCard,
    hand,            \* Player.hand, per player
    opponentHand,    \* Player.opponentHand
    maxCards,        \* Player.maxCards
    unseenCards,     \* Player.unseenCards
    wins,            \* Player.wins
    success,         \* Player.success ("unset" until attack/defend assigns it)
    attacker,
    defender,
    table,
    trashCards,
    preAttackState,
    postAttackState,
    preDefendState,
    postDefendState,
    classWeights,    \* ReflexCPUPlayer.attackWeights / defendWeights (class attributes)
    instWeights,     \* the instance attributes of the same names, NoAttr when absent
    weightFiles,     \* the files reflex_attack / reflex_defend
    lastMove,        \* history: the last attack() / defend() call and what it did
    lastRound,       \* history: how the last round was resolved
    lastUpdates,     \* history: the TD update calls of the last step that made any
    result,          \* history: how the last game ended
    err,             \* the exception that ended the program, "none" otherwise
    search,          \* history: a call of SimpleEnhancedAgent.minimaxChoice
    extracted        \* history: a call of extractFeatures

vars == <<pc, train, playerType, numGames, gameNo, deck, trumpCard, hand,
          opponentHand, maxCards, unseenCards, wins, success, attacker,
          defender, table, trashCards, preAttackState, postAttackState,
          preDefendState, postDefendState, classWeights, instWeights,
          weightFiles, lastMove, lastRound, lastUpdates, result, err, search,
          extracted>>

----------------------------------------------------------------------------
(* Bounds of the model *)

\* The number of cards of the deck that is played with (the code's deck has 36).
DeckSize == 5

\* The size a hand is refilled to (the code's literal 6).
HandSize == 2

\* Fixed-point resolution: a real x is the integer floor(x * Unit).
Unit == 1000

----------------------------------------------------------------------------
(* durak.Card *)

Card_SUITS == 0 .. 3
Card_RANKS == 6 .. 14

Card(s, r) == [suit |-> s, rank |-> r]

AllCards == {Card(s, r) : s \in Card_SUITS, r \in Card_RANKS}

NoCard == [suit |-> -1, rank |-> -1]

\* What attack() and defend() return: a card, Player.NO_VALID_MOVES (-1) or
\* Player.PASS_TURN (-2)
NO_VALID_MOVES == [isCard |-> FALSE, code |-> -1, card |-> NoCard]
PASS_TURN == [isCard |-> FALSE, code |-> -2, card |-> NoCard]
Played(c) == [isCard |-> TRUE, code |-> 0, card |-> c]

pOne == "pOne"
pTwo == "pTwo"
Players == {pOne, pTwo}
Other(p) == IF p = pOne THEN pTwo ELSE pOne

----------------------------------------------------------------------------
(* Sequence helpers (Python list operations) *)

Range(s) == {s[i] : i \in 1 .. Len(s)}

\* s.index(x) as a Python index; -1 when absent
RECURSIVE IndexFrom(_, _, _)
IndexFrom(s, x, i) ==
    IF i > Len(s) THEN -1
    ELSE IF s[i] = x THEN i - 1
    ELSE IndexFrom(s, x, i + 1)

Index(s, x) == IndexFrom(s, x, 1)

\* s.remove(x): the first occurrence goes
Remove(s, x) ==
    LET i == Index(s, x) + 1
    IN  IF i = 0 THEN s
        ELSE SubSeq(s, 1, i - 1) \o SubSeq(s, i + 1, Len(s))

\* s.insert(0, x)
Insert0(s, x) == <<x>> \o s

\* s[i] for a Python index i: the position in the sequence, 0 when out of range
At(s, i) ==
    IF i >= 0 /\ i < Len(s) THEN i + 1
    ELSE IF i < 0 /\ -i <= Len(s) THEN Len(s) + i + 1
    ELSE 0

RECURSIVE Perms(_)
Perms(S) ==
    IF S = {} THEN {<<>>}
    ELSE UNION {{<<x>> \o p : p \in Perms(S \ {x})} : x \in S}

Max(a, b) == IF a >= b THEN a ELSE b

SetMax(S) == CHOOSE x \in S : \A y \in S : y <= x
SetMin(S) == CHOOSE x \in S : \A y \in S : x <= y

----------------------------------------------------------------------------
(* durak.getDeck: the cards of the deck.  The model plays with the first   *)
(* DeckSize cards of the two suits 0 and 1, taken rank by rank.            *)

DeckCard(k) == Card(k % 2, 6 + (k \div 2))

DeckCards == {DeckCard(k) : k \in 0 .. DeckSize - 1}

\* getDeck(shuffle=True): any order
getDeck == Perms(DeckCards)

----------------------------------------------------------------------------
(* Player: hand management and card counting *)

\* refillHand drawing nothing
refillHandNone(h, d, u) == [hand |-> h, deck |-> d, unseen |-> u]

\* Player.refillHand(deck): a record of the hand, the deck and the unseen set after
RECURSIVE refillHand(_, _, _)
refillHand(h, d, u) ==
    IF Len(h) < HandSize /\ Len(d) > 0
    THEN LET card == d[Len(d)]
         IN  refillHand(Append(h, card), SubSeq(d, 1, Len(d) - 1), u \ {card})
    ELSE [hand |-> h, deck |-> d, unseen |-> u]

\* getAttackingCards matching the suits on the table in place of the ranks
getAttackingCardsBySuit(h, tbl) ==
    LET validSuits == {tbl[i].suit : i \in 1 .. Len(tbl)}
    IN  SelectSeq(h, LAMBDA c : c.suit \in validSuits)

\* Player.getAttackingCards
getAttackingCards(h, tbl) ==
    LET validRanks == {tbl[i].rank : i \in 1 .. Len(tbl)}
    IN  SelectSeq(h, LAMBDA c : c.rank \in validRanks)

\* getDefendingCards without the test that the attack card is no trump
getDefendingCardsAnyTrump(h, aCard, trumpSuit) ==
    SelectSeq(h, LAMBDA c : c.suit = aCard.suit /\ c.rank > aCard.rank)
    \o SelectSeq(h, LAMBDA c : c.suit = trumpSuit)

\* Player.getDefendingCards
getDefendingCards(h, aCard, trumpSuit) ==
    LET cards == SelectSeq(h, LAMBDA c : c.suit = aCard.suit /\ c.rank > aCard.rank)
    IN  IF aCard.suit # trumpSuit
        THEN cards \o SelectSeq(h, LAMBDA c : c.suit = trumpSuit)
        ELSE cards

\* the maxCards bookkeeping of attack, defend and removeOpponentCard
LowerMax(mc, card) ==
    IF card.rank = mc[card.suit]
    THEN [mc EXCEPT ![card.suit] = @ - 1]
    ELSE mc

\* the maxCards bookkeeping of addCards and addOpponentCards
RECURSIVE RaiseMax(_, _)
RaiseMax(mc, cards) ==
    IF cards = <<>> THEN mc
    ELSE LET c == Head(cards)
         IN  RaiseMax(IF c.rank > mc[c.suit] THEN [mc EXCEPT ![c.suit] = c.rank] ELSE mc,
                      Tail(cards))

\* Player.__init__: max(durak.Card.RANKS) for every suit
InitMaxCards == [s \in Card_SUITS |-> SetMax(Card_RANKS)]

----------------------------------------------------------------------------
(* player.extractFeatures and player.logisticValue, in fixed point: every  *)
(* feature, weight and value is an integer number of 1/Unit.               *)

RECURSIVE SumSeq(_)
SumSeq(s) == IF s = <<>> THEN 0 ELSE Head(s) + SumSeq(Tail(s))

\* len(cards) as a feature
Count(cards) == Len(cards) * Unit

\* player.avgRank
avgRank(cards) ==
    LET rankSum == SumSeq([i \in 1 .. Len(cards) |-> cards[i].rank])
    IN  IF Len(cards) = 0 THEN 0 ELSE (rankSum * Unit) \div Len(cards)

\* the cards extractFeatures counts as able to defend
DefendCards(h, tableRanks, tc) ==
    IF Cardinality(tableRanks) > 0
    THEN SelectSeq(h, LAMBDA c : c.rank > SetMax(tableRanks) \/ c.suit = tc.suit)
    ELSE h

\* extractFeatures returning the four sizes it starts with and nothing else
extractFeaturesSizesOnly(h, oppHand, opponentHandSize, tc, tbl, deckSize) ==
    <<Count(h), Count(tbl), deckSize * Unit, opponentHandSize * Unit>>

\* player.extractFeatures (unseenCards, which it does not read, is left out)
extractFeatures(h, oppHand, opponentHandSize, tc, tbl, deckSize) ==
    LET perRank == [k \in 1 .. Cardinality(Card_RANKS) |->
                       Count(SelectSeq(h, LAMBDA c : c.rank = SetMin(Card_RANKS) + k - 1))]
        royals == SelectSeq(h, LAMBDA c : c.rank > 10)
        clubs == SelectSeq(h, LAMBDA c : c.suit = 0)
        hearts == SelectSeq(h, LAMBDA c : c.suit = 1)
        diamonds == SelectSeq(h, LAMBDA c : c.suit = 2)
        spades == SelectSeq(h, LAMBDA c : c.suit = 3)
        trumps == SelectSeq(h, LAMBDA c : c.suit = tc.suit)
        tableRanks == {tbl[i].rank : i \in 1 .. Len(tbl)}
        attackCards == SelectSeq(h, LAMBDA c : c.rank \in tableRanks)
        defendCards == DefendCards(h, tableRanks, tc)
        oppAttackCards == SelectSeq(oppHand, LAMBDA c : c.rank \in tableRanks)
        oppDefendCards == DefendCards(oppHand, tableRanks, tc)
    IN  <<Count(h), Count(tbl), deckSize * Unit, opponentHandSize * Unit>>
        \o perRank
        \o <<Count(royals), Count(clubs), Count(hearts), Count(diamonds),
             Count(spades), Count(trumps),
             avgRank(clubs), avgRank(hearts), avgRank(diamonds), avgRank(spades),
             avgRank(trumps),
             Count(attackCards), Count(defendCards), Cardinality(tableRanks) * Unit,
             Count(oppAttackCards), Count(oppDefendCards)>>

\* sum(weight * feature for weight, feature in zip(weights, features))
Dot(weights, features) ==
    LET n == IF Len(weights) <= Len(features) THEN Len(weights) ELSE Len(features)
    IN  SumSeq([i \in 1 .. n |-> weights[i] * features[i]]) \div Unit

\* math.exp(x) for 0 <= x <= 4: the cubic Taylor polynomial at x / 16, squared
\* four times
Exp(x) ==
    LET y == x \div 16
        t == Unit + y + (y * y) \div (2 * Unit) + (y * y * y) \div (6 * Unit * Unit)
        sq(a) == (a * a) \div Unit
    IN  sq(sq(sq(sq(t))))

\* 1.0 / (1 + math.exp(-z)); z is clamped to [-4, 4]
Sigmoid(z) ==
    LET c == IF z > 4 * Unit THEN 4 * Unit ELSE IF z < -4 * Unit THEN -4 * Unit ELSE z
        expNegZ == IF c >= 0 THEN (Unit * Unit) \div Exp(c) ELSE Exp(-c)
    IN  (Unit * Unit) \div (Unit + expNegZ)

logisticValue(weights, features) == Sigmoid(Dot(weights, features))

NumFeatures == 29

ZeroWeights == [i \in 1 .. NumFeatures |-> 0]
OneHot(i, w) == [ZeroWeights EXCEPT ![i] = w]

\* [random.gauss(0, 1e-2) for _ in range(29)]: the vectors the model draws
GaussChoices == {ZeroWeights, OneHot(1, Unit \div 10)}

----------------------------------------------------------------------------
(* The list objects a selector can reach.  A selector runs on a heap of    *)
(* named list objects: "hand" is self.hand, "table" the table list passed  *)
(* in, "opts" the option list, "empty" a [] literal, "new" and "sum" the   *)
(* objects deepcopy and list + list allocate.                              *)

Heap(h, tbl, opts) ==
    [hand |-> h, table |-> tbl, opts |-> opts, empty |-> <<>>, new |-> <<>>, sum |-> <<>>]

\* newHand = self.hand: the same list object
sameObject(heap, ref) == [heap |-> heap, ref |-> ref]

\* copy.deepcopy(obj): a new list object holding the same cards
deepcopy(heap, ref) == [heap |-> [heap EXCEPT !.new = heap[ref]], ref |-> "new"]

\* a + b: a new list object
ListPlus(heap, ref, more) == [heap |-> [heap EXCEPT !.sum = heap[ref] \o more], ref |-> "sum"]

\* what a selector returns: the index (isNone when it is Python's None), the heap
\* it leaves, the exception it raised, and the scores it computed
SelResult(idx, isNone, heap, raised, scores, stopV) ==
    [idx |-> idx, isNone |-> isNone, heap |-> heap, raised |-> raised,
     scores |-> scores, stopV |-> stopV]

\* the arguments a selector reads besides the lists
Ctx(oppHand, tc, deckSize, opponentHandSize, attackW, defendW) ==
    [oppHand |-> oppHand, tc |-> tc, deckSize |-> deckSize,
     oppSize |-> opponentHandSize, attackW |-> attackW, defendW |-> defendW]

----------------------------------------------------------------------------
(* RandomCPUPlayer *)

\* random.randint(a, b): raises ValueError on an empty range
RandomSelect(lo, heap, n) ==
    IF lo > n - 1
    THEN {SelResult(0, TRUE, heap, "ValueError", <<>>, 0)}
    ELSE {SelResult(i, FALSE, heap, "none", <<>>, 0) : i \in lo .. n - 1}

----------------------------------------------------------------------------
(* SimpleCPUPlayer *)

\* sorted(options, key=rank)[0] of a non-empty list: the first card of least rank
LowestFirst(cards) ==
    LET least == SetMin({cards[i].rank : i \in 1 .. Len(cards)})
    IN  SelectSeq(cards, LAMBDA c : c.rank = least)[1]

\* SimpleCPUPlayer.policy
policy(heap, ref, trumpSuit) ==
    LET options == heap[ref]
        nonTrumpCards == SelectSeq(options, LAMBDA c : c.suit # trumpSuit)
        trumpCards == SelectSeq(options, LAMBDA c : c.suit = trumpSuit)
    IN  IF Len(nonTrumpCards) > 0
        THEN SelResult(Index(options, LowestFirst(nonTrumpCards)), FALSE, heap, "none", <<>>, 0)
        ELSE IF Len(trumpCards) > 0
        THEN SelResult(Index(options, LowestFirst(trumpCards)), FALSE, heap, "none", <<>>, 0)
        ELSE SelResult(0, TRUE, heap, "none", <<>>, 0)

----------------------------------------------------------------------------
(* ReflexCPUPlayer *)

\* the value chooseAction computes for one option: the hand and the table of the
\* hypothetical state are the lists x.hand and x.tbl of the heap x.heap
OptionValue(x, ctx, weights) ==
    logisticValue(weights,
                  extractFeatures(x.heap[x.hand], ctx.oppHand, ctx.oppSize, ctx.tc,
                                  x.heap[x.tbl], ctx.deckSize))

\* newHand.remove(card)
RemoveFrom(cp, card) == [heap |-> [cp.heap EXCEPT ![cp.ref] = Remove(@, card)], ref |-> cp.ref]

\* table + [card]
TablePlus(nh, tblRef, card) ==
    [heap |-> ListPlus(nh.heap, tblRef, <<card>>).heap, hand |-> nh.ref,
     tbl |-> ListPlus(nh.heap, tblRef, <<card>>).ref]

\* the loop body counting the options from 1
KeepFromOne(st, heap, v) ==
    [heap |-> heap, i |-> st.i + 1, noMax |-> FALSE,
     maxI |-> IF st.noMax \/ v > st.maxV THEN st.i + 1 ELSE st.maxI,
     maxV |-> IF st.noMax \/ v > st.maxV THEN v ELSE st.maxV,
     scores |-> Append(st.scores, v)]

\* if maxV is None or v >= maxV: the last option of the greatest score is kept
KeepLastMax(st, heap, v) ==
    [heap |-> heap, i |-> st.i + 1, noMax |-> FALSE,
     maxI |-> IF st.noMax \/ v >= st.maxV THEN st.i ELSE st.maxI,
     maxV |-> IF st.noMax \/ v >= st.maxV THEN v ELSE st.maxV,
     scores |-> Append(st.scores, v)]

\* if maxV is None or v > maxV: maxV = v; maxI = i
Keep(st, heap, v) ==
    [heap |-> heap, i |-> st.i + 1, noMax |-> FALSE,
     maxI |-> IF st.noMax \/ v > st.maxV THEN st.i ELSE st.maxI,
     maxV |-> IF st.noMax \/ v > st.maxV THEN v ELSE st.maxV,
     scores |-> Append(st.scores, v)]

Score(st, x, ctx, weights) == Keep(st, x.heap, OptionValue(x, ctx, weights))

\* the body of chooseAction's loop for the option card
LoopBody(st, card, tblRef, ctx, weights) ==
    Score(st, TablePlus(RemoveFrom(deepcopy(st.heap, "hand"), card), tblRef, card),
          ctx, weights)

\* ReflexCPUPlayer.chooseAction: the loop from option st.i on.  st holds the heap,
\* maxI and maxV (noMax while they are None) and the scores computed so far.
RECURSIVE chooseActionLoop(_, _, _, _, _)
chooseActionLoop(st, optsRef, tblRef, ctx, weights) ==
    IF st.i >= Len(st.heap[optsRef]) THEN st
    ELSE chooseActionLoop(LoopBody(st, st.heap[optsRef][st.i + 1], tblRef, ctx, weights),
                          optsRef, tblRef, ctx, weights)

chooseAction(heap, optsRef, tblRef, ctx, weights) ==
    chooseActionLoop([heap |-> heap, i |-> 0, noMax |-> TRUE, maxI |-> 0, maxV |-> 0,
                      scores |-> <<>>],
                     optsRef, tblRef, ctx, weights)

\* return maxI
ReturnMaxI(r) == SelResult(r.maxI, r.noMax, r.heap, "none", r.scores, 0)

\* ReflexCPUPlayer.beginAttack
beginAttack(heap, ctx) == ReturnMaxI(chooseAction(heap, "hand", "empty", ctx, ctx.attackW))

\* stopV >= maxV
StopWinsOnTie(stopV, r) == r.noMax \/ stopV >= r.maxV

\* stopV > maxV (Python 2 orders None below every number)
StopWins(stopV, r) == r.noMax \/ stopV > r.maxV

\* if stopV > maxV: return -1 else: return maxI
StopOrPlay(r, heap, stopV) ==
    IF StopWins(stopV, r)
    THEN SelResult(-1, FALSE, heap, "none", r.scores, stopV)
    ELSE SelResult(r.maxI, FALSE, heap, "none", r.scores, stopV)

\* the value of the state in which the player stops: its cards are those of the
\* list stopHand, the table is empty, both hands are refilled from the deck
StopValue(heap, stopHand, ctx, weights) ==
    logisticValue(weights,
                  extractFeatures(heap[stopHand], ctx.oppHand, Max(ctx.oppSize, HandSize),
                                  ctx.tc, heap.empty,
                                  ctx.deckSize - Max(0, HandSize - Len(heap[stopHand]))
                                               - Max(0, HandSize - ctx.oppSize)))

AttackStop(r, ctx) == StopOrPlay(r, r.heap, StopValue(r.heap, "hand", ctx, ctx.attackW))

\* ReflexCPUPlayer.chooseAttackCard
chooseAttackCard(heap, ctx) ==
    AttackStop(chooseAction(heap, "opts", "table", ctx, ctx.attackW), ctx)

DefendStopIn(r, taken, ctx) ==
    StopOrPlay(r, taken.heap, StopValue(taken.heap, taken.ref, ctx, ctx.defendW))

\* self.hand + table
DefendStop(r, ctx) == DefendStopIn(r, ListPlus(r.heap, "hand", r.heap.table), ctx)

\* chooseDefenseCard scoring with self.attackWeights
chooseDefenseCardByAttack(heap, ctx) ==
    StopOrPlay(chooseAction(heap, "opts", "table", ctx, ctx.attackW),
               ListPlus(heap, "hand", heap.table).heap,
               StopValue(ListPlus(heap, "hand", heap.table).heap, "sum", ctx, ctx.attackW))

\* ReflexCPUPlayer.chooseDefenseCard
chooseDefenseCard(heap, ctx) ==
    DefendStop(chooseAction(heap, "opts", "table", ctx, ctx.defendW), ctx)

----------------------------------------------------------------------------
(* The three selectors of a player of class cls: the set of results.       *)

beginAttackOf(cls, heap, ctx) ==
    CASE cls = "random" -> RandomSelect(0, heap, Len(heap.hand))
      [] cls = "simple" -> {policy(heap, "hand", ctx.tc.suit)}
      [] OTHER -> {beginAttack(heap, ctx)}

chooseAttackCardOf(cls, heap, ctx) ==
    CASE cls = "random" -> RandomSelect(-1, heap, Len(heap.opts))
      [] cls = "simple" -> {policy(heap, "opts", ctx.tc.suit)}
      [] OTHER -> {chooseAttackCard(heap, ctx)}

chooseDefenseCardOf(cls, heap, ctx) ==
    CASE cls = "random" -> RandomSelect(-1, heap, Len(heap.opts))
      [] cls = "simple" -> {policy(heap, "opts", ctx.tc.suit)}
      [] OTHER -> {chooseDefenseCard(heap, ctx)}

----------------------------------------------------------------------------
(* Player.attack and Player.defend: the set of possible results of a call. *)

\* what the call did: the value returned, the exception raised ("none" if it
\* returned), the hand, table, maxCards and success it leaves, and the selector
\* call it made
MoveResult(ret, raised, h, tbl, mc, succ, sel) ==
    [ret |-> ret, raised |-> raised, hand |-> h, table |-> tbl, maxCards |-> mc,
     success |-> succ, sel |-> sel]

\* the record of a selector call: its lists before and after
SelCall(kind, cls, heap0, r) ==
    [kind |-> kind, cls |-> cls, options |-> IF kind = "beginAttack" THEN heap0.hand ELSE heap0.opts,
     idx |-> r.idx, scores |-> r.scores, stopV |-> r.stopV,
     handIn |-> heap0.hand, tableIn |-> heap0.table,
     handOut |-> r.heap.hand, tableOut |-> r.heap.table]

NoSelCall(h, tbl) ==
    [kind |-> "none", cls |-> "none", options |-> <<>>, idx |-> 0, scores |-> <<>>, stopV |-> 0,
     handIn |-> h, tableIn |-> tbl, handOut |-> h, tableOut |-> tbl]

\* the tail of attack and of defend with table.append(card)
PlaceCardAtEnd(card, heap, mc, sel) ==
    MoveResult(Played(card), "none", Remove(heap.hand, card), Append(heap.table, card),
               LowerMax(mc, card), "True", sel)

\* the tail of attack and of defend with the card left in the hand
PlaceCardKept(card, heap, mc, sel) ==
    MoveResult(Played(card), "none", heap.hand, Insert0(heap.table, card),
               LowerMax(mc, card), "True", sel)

\* the tail of attack and of defend: the chosen card goes from the hand to the
\* top of the table
PlaceCard(card, heap, mc, sel) ==
    MoveResult(Played(card), "none", Remove(heap.hand, card), Insert0(heap.table, card),
               LowerMax(mc, card), "True", sel)

Raise(exc, heap, mc, succ, sel) ==
    MoveResult(NO_VALID_MOVES, exc, heap.hand, heap.table, mc, succ, sel)

\* Player.attack
attack(cls, h, tbl, mc, succ, ctx) ==
    IF Len(tbl) = 0
    THEN LET heap0 == Heap(h, tbl, <<>>)
         IN  {LET sel == SelCall("beginAttack", cls, heap0, r)
              IN  IF r.raised # "none" THEN Raise(r.raised, r.heap, mc, succ, sel)
                  ELSE IF r.isNone THEN Raise("TypeError", r.heap, mc, succ, sel)
                  ELSE IF At(r.heap.hand, r.idx) = 0
                  THEN Raise("IndexError", r.heap, mc, succ, sel)
                  ELSE PlaceCard(r.heap.hand[At(r.heap.hand, r.idx)], r.heap, mc, sel)
              : r \in beginAttackOf(cls, heap0, ctx)}
    ELSE LET attackingOptions == getAttackingCards(h, tbl)
             heap0 == Heap(h, tbl, attackingOptions)
         IN  IF Len(attackingOptions) = 0
             THEN {MoveResult(NO_VALID_MOVES, "none", h, tbl, mc, "False", NoSelCall(h, tbl))}
             ELSE {LET sel == SelCall("chooseAttackCard", cls, heap0, r)
                   IN  IF r.raised # "none" THEN Raise(r.raised, r.heap, mc, succ, sel)
                       ELSE IF r.isNone THEN Raise("TypeError", r.heap, mc, succ, sel)
                       ELSE IF r.idx = -1
                       THEN MoveResult(PASS_TURN, "none", r.heap.hand, r.heap.table, mc,
                                       "False", sel)
                       ELSE IF At(r.heap.opts, r.idx) = 0
                       THEN Raise("IndexError", r.heap, mc, succ, sel)
                       ELSE PlaceCard(r.heap.opts[At(r.heap.opts, r.idx)], r.heap, mc, sel)
                   : r \in chooseAttackCardOf(cls, heap0, ctx)}

\* Player.defend
defend(cls, h, tbl, mc, succ, ctx) ==
    IF Len(tbl) = 0
    THEN {Raise("IndexError", Heap(h, tbl, <<>>), mc, succ, NoSelCall(h, tbl))}
    ELSE LET defendingOptions == getDefendingCards(h, tbl[1], ctx.tc.suit)
             heap0 == Heap(h, tbl, defendingOptions)
         IN  IF Len(defendingOptions) = 0
             THEN {MoveResult(NO_VALID_MOVES, "none", h, tbl, mc, "False", NoSelCall(h, tbl))}
             ELSE {LET sel == SelCall("chooseDefenseCard", cls, heap0, r)
                   IN  IF r.raised # "none" THEN Raise(r.raised, r.heap, mc, succ, sel)
                       ELSE IF r.isNone THEN Raise("TypeError", r.heap, mc, succ, sel)
                       ELSE IF r.idx = -1
                       THEN MoveResult(PASS_TURN, "none", r.heap.hand, r.heap.table, mc,
                                       "False", sel)
                       ELSE IF At(r.heap.opts, r.idx) = 0
                       THEN Raise("IndexError", r.heap, mc, succ, sel)
                       ELSE PlaceCard(r.heap.opts[At(r.heap.opts, r.idx)], r.heap, mc, sel)
                   : r \in chooseDefenseCardOf(cls, heap0, ctx)}

----------------------------------------------------------------------------
(* The state tuples of playGame.  A tuple holds references to the lists of *)
(* a player (hand, opponentHand, unseenCards) and to the table list, and   *)
(* the two lengths by value.  who names the player whose lists they are;   *)
(* tblLive says that the table reference is the list the variable table is *)
(* bound to now, otherwise tblCards is what that older list holds.         *)

NoneState ==
    [isNone |-> TRUE, who |-> pOne, oppSize |-> 0, tblLive |-> FALSE, tblCards |-> <<>>,
     deckSize |-> 0, seventh |-> "unseenCards"]

StateTuple(p, opponentHandSize, deckSize, seventh) ==
    [isNone |-> FALSE, who |-> p, oppSize |-> opponentHandSize, tblLive |-> TRUE,
     tblCards |-> <<>>, deckSize |-> deckSize, seventh |-> seventh]

\* table = []: the tuples keep the list that table was bound to
Rebind(s, tbl) ==
    IF ~s.isNone /\ s.tblLive THEN [s EXCEPT !.tblLive = FALSE, !.tblCards = tbl] ELSE s

\* extractFeatures(*state), with the lists as they are now
StateFeatures(s, hands, oppHands, tc, tbl) ==
    extractFeatures(hands[s.who], oppHands[s.who], s.oppSize, tc,
                    IF s.tblLive THEN tbl ELSE s.tblCards, s.deckSize)

----------------------------------------------------------------------------
(* ReflexCPUPlayer's weights.  attackWeights and defendWeights are class   *)
(* attributes; self.attackWeights = ... creates an instance attribute.     *)

NoAttr == [set |-> FALSE, w |-> <<>>]
Attr(w) == [set |-> TRUE, w |-> w]

NoInstance == [attack |-> NoAttr, defend |-> NoAttr]

\* self.attackWeights / self.defendWeights as Python looks the name up
Lookup(inst, cw, role) == IF inst[role].set THEN inst[role].w ELSE cw[role]

\* the body of TDUpdateAttack / TDUpdateDefend after the features are extracted
TDStep(weights, stateFeatures, hasNew, newStateFeatures, reward) ==
    LET value == logisticValue(weights, stateFeatures)
        residual == reward * Unit - value
                    + (IF hasNew THEN logisticValue(weights, newStateFeatures) ELSE 0)
        gradient == [i \in 1 .. Len(stateFeatures) |->
                        (((value * (Unit - value)) \div Unit) * stateFeatures[i]) \div Unit]
        n == IF Len(weights) <= Len(gradient) THEN Len(weights) ELSE Len(gradient)
    IN  [i \in 1 .. n |-> weights[i] + (residual * gradient[i]) \div (10 * Unit)]

\* what an update call did: the instance attributes after, and the exception
Updated(inst, raised) == [inst |-> inst, raised |-> raised]

\* TDUpdateAttack of a player of class cls
TDUpdateAttack(cls, inst, cw, state, newState, reward, hands, oppHands, tc, tbl) ==
    IF cls # "reflex" THEN Updated(inst, "none")
    ELSE IF state.isNone THEN Updated(inst, "TypeError")
    ELSE LET newWeights ==
                 TDStep(Lookup(inst, cw, "attack"),
                        StateFeatures(state, hands, oppHands, tc, tbl),
                        ~newState.isNone,
                        IF newState.isNone THEN <<>>
                        ELSE StateFeatures(newState, hands, oppHands, tc, tbl),
                        reward)
         IN  Updated([inst EXCEPT !.attack = Attr(newWeights)], "none")

\* TDUpdateDefend of a player of class cls
TDUpdateDefend(cls, inst, cw, state, newState, reward, hands, oppHands, tc, tbl) ==
    IF cls # "reflex" THEN Updated(inst, "none")
    ELSE IF state.isNone THEN Updated(inst, "none")
    ELSE LET newWeights ==
                 TDStep(Lookup(inst, cw, "defend"),
                        StateFeatures(state, hands, oppHands, tc, tbl),
                        ~newState.isNone,
                        IF newState.isNone THEN <<>>
                        ELSE StateFeatures(newState, hands, oppHands, tc, tbl),
                        reward)
         IN  Updated([inst EXCEPT !.defend = Attr(newWeights)], "none")

\* a weight file: absent, or holding a pickled vector
NoFile == [exists |-> FALSE, w |-> <<>>]
File(w) == [exists |-> TRUE, w |-> w]

----------------------------------------------------------------------------
(* durak.getPlayOrder: <<attacker, defender>> *)

getPlayOrder(h1, h2, trumpSuit) ==
    LET pOneTrumps == SelectSeq(h1, LAMBDA c : c.suit = trumpSuit)
        pTwoTrumps == SelectSeq(h2, LAMBDA c : c.suit = trumpSuit)
    IN  IF Len(pOneTrumps) = 0 /\ Len(pTwoTrumps) = 0 THEN <<pOne, pTwo>>
        ELSE IF Len(pOneTrumps) = 0 THEN <<pTwo, pOne>>
        ELSE IF Len(pTwoTrumps) = 0 THEN <<pOne, pTwo>>
        ELSE IF pOneTrumps[1].rank < pTwoTrumps[1].rank THEN <<pOne, pTwo>>
        ELSE <<pTwo, pOne>>

\* durak.main / getPlayers: the class of each player
ClassOf(p) ==
    IF train THEN "reflex"
    ELSE IF p = pOne THEN playerType ELSE "simple"

----------------------------------------------------------------------------
(* History records *)

NoMove ==
    [call |-> "none", who |-> pOne, ret |-> NO_VALID_MOVES, raised |-> "none",
     success |-> "unset", sel |-> NoSelCall(<<>>, <<>>),
     handBefore |-> <<>>, tableBefore |-> <<>>, handAfter |-> <<>>, tableAfter |-> <<>>]

MoveCall(call, p, m, h, tbl) ==
    [call |-> call, who |-> p, ret |-> m.ret, raised |-> m.raised, success |-> m.success,
     sel |-> m.sel, handBefore |-> h, tableBefore |-> tbl,
     handAfter |-> m.hand, tableAfter |-> m.table]

UpdateCall(p, role, state, newState, reward, inst, u, cw) ==
    [who |-> p, role |-> role, preNone |-> state.isNone, postNone |-> newState.isNone,
     reward |-> reward, raised |-> u.raised,
     attackBefore |-> Lookup(inst, cw, "attack"), attackAfter |-> Lookup(u.inst, cw, "attack"),
     defendBefore |-> Lookup(inst, cw, "defend"), defendAfter |-> Lookup(u.inst, cw, "defend")]

NoRound ==
    [how |-> "none", lastCall |-> "none", lastRet |-> NO_VALID_MOVES, cards |-> <<>>,
     attacker |-> pOne]

\* no call of extractFeatures
NoFeatures ==
    [called |-> FALSE, hand |-> <<>>, oppHand |-> <<>>, table |-> <<>>, trumpCard |-> NoCard,
     out |-> <<>>]

----------------------------------------------------------------------------
(* agent.py: SimpleEnhancedAgent.  The game object it searches is a        *)
(* durak2.Durak; durak2 and util are not among the sources, and the game   *)
(* operations and the leaf features below follow the specification's       *)
(* account of a round with an empty deck.  Agents are named as the players *)
(* are: Other(agent) is int(not agent).                                    *)

\* Durak.END_ROUND, the pseudo-card of stopping the attack or surrendering
END_ROUND == [suit |-> -2, rank |-> -2]

\* a game object: ended says that END_ROUND was played, last who played last
Game(hands, tbl, att, d, tc) ==
    [hand |-> hands, table |-> tbl, trash |-> <<>>, attacker |-> att, deck |-> d,
     trumpCard |-> tc, ended |-> FALSE, last |-> att]

NoGame == Game([p \in Players |-> <<>>], <<>>, pOne, <<>>, NoCard)

\* game.playCard(agent, card)
playCard(g, agent, card) ==
    IF card = END_ROUND THEN [g EXCEPT !.ended = TRUE, !.last = agent]
    ELSE [g EXCEPT !.hand[agent] = Remove(@, card), !.table = Insert0(@, card),
                   !.last = agent]

\* game.roundOver(): a player has stopped, or a hand is empty
roundOver(g) == g.ended \/ \E p \in Players : Len(g.hand[p]) = 0

\* game.endRound(): the defender takes the table when it surrendered or left the
\* top card unanswered; otherwise the table is trashed and the roles swap
endRound(g) ==
    IF g.ended = (g.last # g.attacker)
    THEN [g EXCEPT !.hand[Other(g.attacker)] = @ \o g.table, !.table = <<>>,
                   !.ended = FALSE]
    ELSE [g EXCEPT !.trash = @ \o g.table, !.table = <<>>, !.ended = FALSE,
                   !.attacker = Other(@)]

\* game.gameOver()
gameOver(g) == Len(g.deck) = 0 /\ \E p \in Players : Len(g.hand[p]) = 0

\* game.isWinner(p), game.isLoser(p)
isWinner(g, p) == gameOver(g) /\ Len(g.hand[p]) = 0
isLoser(g, p) == gameOver(g) /\ Len(g.hand[p]) > 0

\* game.getAttackOptions(agent), game.getDefendOptions(agent)
getAttackOptions(g, agent) ==
    IF Len(g.table) = 0 THEN g.hand[agent]
    ELSE getAttackingCards(g.hand[agent], g.table) \o <<END_ROUND>>

getDefendOptions(g, agent) ==
    IF Len(g.table) = 0 THEN <<END_ROUND>>
    ELSE getDefendingCards(g.hand[agent], g.table[1], g.trumpCard.suit) \o <<END_ROUND>>

\* util.extractFeatures(game.getState(agent))
getStateFeatures(g, agent) ==
    extractFeatures(g.hand[agent], <<>>, Len(g.hand[Other(agent)]), g.trumpCard, g.table,
                    Len(g.deck))

\* float('-inf'), float('+inf')
NegInf == -(Unit * Unit)
PosInf == Unit * Unit

Min(a, b) == IF a <= b THEN a ELSE b

\* a SimpleEnhancedAgent
Agent(playerNum, depth, w_atk, w_def) ==
    [playerNum |-> playerNum, depth |-> depth, w_atk |-> w_atk, w_def |-> w_def]

\* the heap a search runs on: game is the game object passed in, new the object
\* copy.deepcopy allocates
GameHeap(g) == [game |-> g, new |-> g]

\* what getValueRec returns, and the heap it leaves
Value(v, heap) == [v |-> v, heap |-> heap]

\* gameClone.playCard(otherAgent, card); if gameClone.roundOver(): gameClone.endRound()
MoveOn(g, otherAgent, card) ==
    IF roundOver(playCard(g, otherAgent, card)) THEN endRound(playCard(g, otherAgent, card))
    ELSE playCard(g, otherAgent, card)

MoveOnClone(c, otherAgent, card) ==
    [heap |-> [c.heap EXCEPT ![c.ref] = MoveOn(@, otherAgent, card)], ref |-> c.ref]

\* the leaf value: the weights of the role of agent
LeafValue(self, g, agent) ==
    logisticValue(IF agent = g.attacker THEN self.w_atk ELSE self.w_def,
                  getStateFeatures(g, agent))

\* the cards the loop of getValueRec runs over
NodeCards(g, agent) ==
    IF agent = g.attacker THEN getAttackOptions(g, agent) ELSE getDefendOptions(g, agent)

\* the heap after a recursive call that was given the object c.ref as its game
Returned(c, child) == [heap |-> [c.heap EXCEPT ![c.ref] = child.heap.game], ref |-> c.ref]

RECURSIVE getValueRec(_, _, _, _, _, _, _)
RECURSIVE valueLoop(_, _, _, _, _, _, _, _, _)

\* one pass of a loop of getValueRec with each cut taken on the bound of the
\* node's own side
valueStepOwnBound(self, c, agent, cards, i, depth, v, alpha, beta, childV) ==
    IF agent = self.playerNum
    THEN IF Max(v, childV) >= alpha THEN Value(Max(v, childV), c.heap)
         ELSE valueLoop(self, c, agent, cards, i + 1, depth, Max(v, childV),
                        Max(alpha, Max(v, childV)), beta)
    ELSE IF Min(v, childV) <= beta THEN Value(Min(v, childV), c.heap)
         ELSE valueLoop(self, c, agent, cards, i + 1, depth, Min(v, childV),
                        alpha, Min(beta, Min(v, childV)))

\* one pass of a loop of getValueRec, the recursive call made
valueStep(self, c, agent, cards, i, depth, v, alpha, beta, childV) ==
    IF agent = self.playerNum
    THEN IF Max(v, childV) >= beta THEN Value(Max(v, childV), c.heap)
         ELSE valueLoop(self, c, agent, cards, i + 1, depth, Max(v, childV),
                        Max(alpha, Max(v, childV)), beta)
    ELSE IF Min(v, childV) <= alpha THEN Value(Min(v, childV), c.heap)
         ELSE valueLoop(self, c, agent, cards, i + 1, depth, Min(v, childV),
                        alpha, Min(beta, Min(v, childV)))

valueAfter(self, c, agent, cards, i, depth, v, alpha, beta, child) ==
    valueStep(self, Returned(c, child), agent, cards, i, depth, v, alpha, beta, child.v)

\* the two loops of getValueRec, from card i on
valueLoop(self, c, agent, cards, i, depth, v, alpha, beta) ==
    IF i > Len(cards) THEN Value(v, c.heap)
    ELSE valueAfter(self, c, agent, cards, i, depth, v, alpha, beta,
                    getValueRec(self, GameHeap(c.heap[c.ref]), Other(agent), cards[i],
                                depth, alpha, beta))

\* the depth with one taken off after every move, whoever made it
DepthBelowEveryPly(self, agent, depth) == depth - 1

\* if otherAgent == self.playerNum: depth -= 1
DepthBelow(self, agent, depth) == IF Other(agent) = self.playerNum THEN depth - 1 ELSE depth

\* getValueRec after the move, the test of the depth made first
valueOfDepthFirst(self, c, agent, depth, alpha, beta) ==
    IF depth = 0 THEN Value(LeafValue(self, c.heap[c.ref], agent), c.heap)
    ELSE IF gameOver(c.heap[c.ref]) /\ isWinner(c.heap[c.ref], self.playerNum)
    THEN Value(Unit, c.heap)
    ELSE IF gameOver(c.heap[c.ref]) /\ isLoser(c.heap[c.ref], self.playerNum)
    THEN Value(0, c.heap)
    ELSE valueLoop(self, c, agent, NodeCards(c.heap[c.ref], agent), 1,
                   DepthBelow(self, agent, depth),
                   IF agent = self.playerNum THEN NegInf ELSE PosInf, alpha, beta)

\* getValueRec after the move: the terminal values, the leaf, or the loop
valueOf(self, c, agent, depth, alpha, beta) ==
    IF gameOver(c.heap[c.ref]) /\ isWinner(c.heap[c.ref], self.playerNum)
    THEN Value(Unit, c.heap)
    ELSE IF gameOver(c.heap[c.ref]) /\ isLoser(c.heap[c.ref], self.playerNum)
    THEN Value(0, c.heap)
    ELSE IF depth = 0 THEN Value(LeafValue(self, c.heap[c.ref], agent), c.heap)
    ELSE valueLoop(self, c, agent, NodeCards(c.heap[c.ref], agent), 1,
                   DepthBelow(self, agent, depth),
                   IF agent = self.playerNum THEN NegInf ELSE PosInf, alpha, beta)

\* SimpleEnhancedAgent.getValueRec, the game being the object heap.game
getValueRec(self, heap, agent, card, depth, alpha, beta) ==
    valueOf(self, MoveOnClone(deepcopy(heap, "game"), Other(agent), card), agent, depth,
            alpha, beta)

\* a node of the search: a call of getValueRec after its move.  kind says how the
\* call goes on (the game is over, the depth is cut off, or the loop runs), agent
\* is the player to move, depth the depth the call ends with, own the number of
\* moves of the searching agent on the path
Node(kind, agent, depth, own) == [kind |-> kind, agent |-> agent, depth |-> depth, own |-> own]

\* the nodes of the calls getValueRec(agent, g0, card, depth, ...) can make, own
\* being the moves of self before card
RECURSIVE nodesOf(_, _, _, _, _, _)
nodesBelow(self, g, agent, cards, below, own) ==
    {Node("loop", agent, below, own)}
    \cup UNION {nodesOf(self, g, Other(agent), cards[i], below, own) : i \in 1 .. Len(cards)}

nodesAt(self, g, agent, depth, own) ==
    IF gameOver(g) /\ (isWinner(g, self.playerNum) \/ isLoser(g, self.playerNum))
    THEN {Node("over", agent, depth, own)}
    ELSE IF depth = 0 THEN {Node("leaf", agent, depth, own)}
    ELSE nodesBelow(self, g, agent, NodeCards(g, agent), DepthBelow(self, agent, depth), own)

nodesOf(self, g0, agent, card, depth, own) ==
    nodesAt(self, MoveOn(g0, Other(agent), card), agent, depth,
            IF Other(agent) = self.playerNum THEN own + 1 ELSE own)

\* the nodes of a call of minimaxChoice
nodesOfChoice(self, g, cards) ==
    UNION {nodesOf(self, g, Other(self.playerNum), cards[i], self.depth, 0) :
              i \in 1 .. Len(cards)}

\* the keys max() computes in minimaxChoice, from card i on
RECURSIVE keysFrom(_, _, _, _, _)
keysAfter(self, cards, i, keys, r) == keysFrom(self, r.heap, cards, i + 1, Append(keys, r.v))

keysFrom(self, heap, cards, i, keys) ==
    IF i > Len(cards) THEN [keys |-> keys, heap |-> heap]
    ELSE keysAfter(self, cards, i, keys,
                   getValueRec(self, heap, Other(self.playerNum), cards[i], self.depth,
                               NegInf, PosInf))

\* max(cards, key=...): the first card of the greatest key
FirstMax(cards, keys) ==
    cards[CHOOSE i \in 1 .. Len(cards) :
              /\ \A j \in 1 .. Len(cards) : keys[j] <= keys[i]
              /\ \A j \in 1 .. i - 1 : keys[j] < keys[i]]

Chosen(cards, k) == [card |-> FirstMax(cards, k.keys), keys |-> k.keys, heap |-> k.heap]

\* SimpleEnhancedAgent.minimaxChoice
minimaxChoice(self, heap, cards) == Chosen(cards, keysFrom(self, heap, cards, 1, <<>>))

\* SimpleAgent.policy: the lowest card that is no trump, else the lowest trump,
\* else END_ROUND; a trailing END_ROUND is no candidate
SimpleAgent_policy(cards, trumpSuit) ==
    LET real == IF cards[Len(cards)] = END_ROUND THEN SubSeq(cards, 1, Len(cards) - 1)
                ELSE cards
        trumpCards == SelectSeq(real, LAMBDA c : c.suit = trumpSuit)
        nonTrumpCards == SelectSeq(real, LAMBDA c : c.suit # trumpSuit)
    IN  IF Len(nonTrumpCards) > 0 THEN LowestFirst(nonTrumpCards)
        ELSE IF Len(trumpCards) > 0 THEN LowestFirst(trumpCards)
        ELSE END_ROUND

\* a card returned without a search
Picked(card, heap) == [card |-> card, keys |-> <<>>, heap |-> heap]

\* getAttackCard without the test of the deck
getAttackCardDeckBlind(self, heap, cards) ==
    IF Len(cards) = 1 THEN Picked(cards[1], heap)
    ELSE minimaxChoice(self, heap, cards)

\* SimpleEnhancedAgent.getAttackCard
getAttackCard(self, heap, cards) ==
    IF Len(heap.game.deck) > 0
    THEN Picked(SimpleAgent_policy(cards, heap.game.trumpCard.suit), heap)
    ELSE IF Len(cards) = 1 THEN Picked(cards[1], heap)
    ELSE minimaxChoice(self, heap, cards)

\* SimpleEnhancedAgent.getDefendCard
getDefendCard(self, heap, cards) ==
    IF Len(heap.game.deck) > 0
    THEN Picked(SimpleAgent_policy(cards, heap.game.trumpCard.suit), heap)
    ELSE IF Len(cards) = 1 THEN Picked(cards[1], heap)
    ELSE minimaxChoice(self, heap, cards)

\* self.depth = 2
SearchDepth == 2

\* no call of minimaxChoice
NoSearch ==
    [called |-> FALSE, via |-> "none", self |-> pOne, depth |-> 0, cards |-> <<>>,
     values |-> <<>>, choice |-> NoCard, before |-> NoGame, after |-> NoGame]

----------------------------------------------------------------------------
(* The program: durak.main and durak.playGame *)

\* the runs of main the model makes: the command line (-t, or -p random / simple /
\* reflex, and -n) and the weight files found.  The files matter to
\* ReflexCPUPlayer alone; the runs without one are made with both files present.
Trained == File(OneHot(1, -(Unit \div 10)))

RunChoices ==
    {[train |-> t, player |-> "reflex", numGames |-> 1,
      files |-> [attack |-> f, defend |-> NoFile]] : t \in BOOLEAN, f \in {NoFile, Trained}}
    \cup {[train |-> FALSE, player |-> c, numGames |-> 1,
           files |-> [attack |-> Trained, defend |-> Trained]] : c \in {"random", "simple"}}

InitWith(argSet) ==
    /\ pc = "main"
    /\ \E a \in argSet : /\ train = a.train
                         /\ playerType = a.player
                         /\ numGames = a.numGames
                         /\ weightFiles = a.files
    /\ gameNo = 0
    /\ deck = <<>>
    /\ trumpCard = NoCard
    /\ hand = [p \in Players |-> <<>>]
    /\ opponentHand = [p \in Players |-> <<>>]
    /\ maxCards = [p \in Players |-> InitMaxCards]
    /\ unseenCards = [p \in Players |-> DeckCards]
    /\ wins = [p \in Players |-> 0]
    /\ success = [p \in Players |-> "unset"]
    /\ attacker = pOne
    /\ defender = pTwo
    /\ table = <<>>
    /\ trashCards = <<>>
    /\ preAttackState = NoneState
    /\ postAttackState = NoneState
    /\ preDefendState = NoneState
    /\ postDefendState = NoneState
    /\ classWeights \in [attack : GaussChoices, defend : GaussChoices]
    /\ instWeights = [p \in Players |-> NoInstance]
    /\ lastMove = NoMove
    /\ lastRound = NoRound
    /\ lastUpdates = <<>>
    /\ result = "none"
    /\ err = "none"
    /\ search = NoSearch
    /\ extracted = NoFeatures

Init == InitWith(RunChoices)

\* ReflexCPUPlayer.loadWeights, for one of the two files
loadWeights(file) == IF file.exists THEN {file.w} ELSE GaussChoices

\* main up to the loop: loadWeights, and the two players are constructed
Main ==
    /\ pc = "main"
    /\ \E a \in loadWeights(weightFiles.attack), d \in loadWeights(weightFiles.defend) :
           classWeights' = [attack |-> a, defend |-> d]
    /\ hand' = [p \in Players |-> <<>>]
    /\ opponentHand' = [p \in Players |-> <<>>]
    /\ maxCards' = [p \in Players |-> InitMaxCards]
    /\ unseenCards' = [p \in Players |-> DeckCards]
    /\ wins' = [p \in Players |-> 0]
    /\ instWeights' = [p \in Players |-> NoInstance]
    /\ pc' = IF gameNo < numGames THEN "playGame" ELSE "writeWeights"
    /\ UNCHANGED <<extracted, search, train, playerType, numGames, gameNo, deck, trumpCard, success, attacker,
                   defender, table, trashCards, preAttackState, postAttackState,
                   preDefendState, postDefendState, weightFiles, lastMove, lastRound,
                   lastUpdates, result, err>>

\* playGame up to the first attack: the deck is shuffled, the trump card goes to
\* the bottom, both hands are filled, the play order is set, the round starts
PlayGame ==
    /\ pc = "playGame"
    /\ \E shuffled \in getDeck :
        LET tc == shuffled[Len(shuffled)]
            deck1 == Insert0(SubSeq(shuffled, 1, Len(shuffled) - 1), tc)
            r1 == refillHand(hand[pOne], deck1, unseenCards[pOne])
            r2 == refillHand(hand[pTwo], r1.deck, unseenCards[pTwo])
            order == getPlayOrder(r1.hand, r2.hand, tc.suit)
            hand1 == [hand EXCEPT ![pOne] = r1.hand, ![pTwo] = r2.hand]
        IN  /\ trumpCard' = tc
            /\ deck' = r2.deck
            /\ hand' = hand1
            /\ unseenCards' = [unseenCards EXCEPT ![pOne] = r1.unseen, ![pTwo] = r2.unseen]
            /\ attacker' = order[1]
            /\ defender' = order[2]
            /\ preAttackState' = StateTuple(order[1], Len(hand1[order[2]]), Len(r2.deck),
                                            "unseenCards")
    /\ table' = <<>>
    /\ trashCards' = <<>>
    /\ postAttackState' = NoneState
    /\ preDefendState' = NoneState
    /\ postDefendState' = NoneState
    /\ lastMove' = NoMove
    /\ lastRound' = NoRound
    /\ lastUpdates' = <<>>
    /\ result' = "none"
    /\ pc' = "attack"
    /\ UNCHANGED <<extracted, search, train, playerType, numGames, gameNo, opponentHand, maxCards, wins,
                   success, classWeights, instWeights, weightFiles, err>>

\* the arguments of an attack() or defend() call by p
CtxOf(p, deckSize, opponentHandSize) ==
    Ctx(opponentHand[p], trumpCard, deckSize, opponentHandSize,
        Lookup(instWeights[p], classWeights, "attack"),
        Lookup(instWeights[p], classWeights, "defend"))

\* playGame's inner loop, first half: the attacker's move, the defender notes the
\* card, the defender's TD update, and the loop is left if the attack is over
AttackMove ==
    /\ pc = "attack"
    /\ \E m \in attack(ClassOf(attacker), hand[attacker], table, maxCards[attacker],
                       success[attacker], CtxOf(attacker, Len(deck), Len(hand[defender]))) :
        LET ok == m.raised = "none"
            seen == ok /\ m.ret.isCard
            hand1 == [hand EXCEPT ![attacker] = m.hand]
            opp1 == IF seen THEN [opponentHand EXCEPT ![defender] = Remove(@, m.ret.card)]
                    ELSE opponentHand
            post == StateTuple(defender, Len(hand1[attacker]), Len(deck), "unseenCards")
            upd == ok /\ train
        IN  \E u \in {TDUpdateDefend(ClassOf(defender), instWeights[defender], classWeights,
                                     preDefendState, post, 0, hand1, opp1, trumpCard,
                                     m.table)} :
            /\ hand' = hand1
            /\ table' = m.table
            /\ success' = [success EXCEPT ![attacker] = m.success]
            /\ opponentHand' = opp1
            /\ maxCards' = [maxCards EXCEPT ![attacker] = m.maxCards,
                                            ![defender] = IF seen THEN LowerMax(@, m.ret.card)
                                                          ELSE @]
            /\ unseenCards' = IF seen THEN [unseenCards EXCEPT ![defender] = @ \ {m.ret.card}]
                              ELSE unseenCards
            /\ lastMove' = MoveCall("attack", attacker, m, hand[attacker], table)
            /\ postAttackState' = IF upd THEN post ELSE postAttackState
            /\ preDefendState' = IF upd /\ u.raised = "none" THEN post ELSE preDefendState
            /\ instWeights' = IF upd THEN [instWeights EXCEPT ![defender] = u.inst]
                              ELSE instWeights
            /\ lastUpdates' = IF upd
                              THEN <<UpdateCall(defender, "defend", preDefendState, post, 0,
                                                instWeights[defender], u, classWeights)>>
                              ELSE lastUpdates
            /\ err' = IF ~ok THEN m.raised ELSE IF upd THEN u.raised ELSE "none"
            /\ pc' = IF ~ok \/ (upd /\ u.raised # "none") THEN "crashed"
                     ELSE IF m.success # "True" \/ Len(hand1[attacker]) = 0 THEN "resolve"
                     ELSE "defend"
    /\ UNCHANGED <<extracted, search, train, playerType, numGames, gameNo, deck, trumpCard, wins, attacker,
                   defender, trashCards, preAttackState, postDefendState, classWeights,
                   weightFiles, lastRound, result>>

\* playGame's inner loop, second half: the defender's move, the attacker notes
\* the card, the attacker's TD update, and the loop is left if the defence is over
DefendMove ==
    /\ pc = "defend"
    /\ \E m \in defend(ClassOf(defender), hand[defender], table, maxCards[defender],
                       success[defender], CtxOf(defender, Len(deck), Len(hand[attacker]))) :
        LET ok == m.raised = "none"
            seen == ok /\ m.ret.isCard
            hand1 == [hand EXCEPT ![defender] = m.hand]
            opp1 == IF seen THEN [opponentHand EXCEPT ![attacker] = Remove(@, m.ret.card)]
                    ELSE opponentHand
            post == StateTuple(attacker, Len(hand1[defender]), Len(deck), "unseenCards")
            upd == ok /\ train
        IN  \E u \in {TDUpdateAttack(ClassOf(attacker), instWeights[attacker], classWeights,
                                     preAttackState, post, 0, hand1, opp1, trumpCard,
                                     m.table)} :
            /\ hand' = hand1
            /\ table' = m.table
            /\ success' = [success EXCEPT ![defender] = m.success]
            /\ opponentHand' = opp1
            /\ maxCards' = [maxCards EXCEPT ![defender] = m.maxCards,
                                            ![attacker] = IF seen THEN LowerMax(@, m.ret.card)
                                                          ELSE @]
            /\ unseenCards' = IF seen THEN [unseenCards EXCEPT ![attacker] = @ \ {m.ret.card}]
                              ELSE unseenCards
            /\ lastMove' = MoveCall("defend", defender, m, hand[defender], table)
            /\ postDefendState' = IF upd THEN post ELSE postDefendState
            /\ preAttackState' = IF upd /\ u.raised = "none" THEN post ELSE preAttackState
            /\ instWeights' = IF upd THEN [instWeights EXCEPT ![attacker] = u.inst]
                              ELSE instWeights
            /\ lastUpdates' = IF upd
                              THEN <<UpdateCall(attacker, "attack", preAttackState, post, 0,
                                                instWeights[attacker], u, classWeights)>>
                              ELSE lastUpdates
            /\ err' = IF ~ok THEN m.raised ELSE IF upd THEN u.raised ELSE "none"
            /\ pc' = IF ~ok \/ (upd /\ u.raised # "none") THEN "crashed"
                     ELSE IF m.success # "True" \/ Len(hand1[defender]) = 0 THEN "resolve"
                     ELSE "attack"
    /\ UNCHANGED <<extracted, search, train, playerType, numGames, gameNo, deck, trumpCard, wins, attacker,
                   defender, trashCards, postAttackState, preDefendState, classWeights,
                   weightFiles, lastRound, result>>

\* the test that leaves the main loop with the deck left out
GameIsOverAnyDeck(deckSize, dOut, aOut) == dOut \/ aOut

\* len(deck) == 0 and (len(defender.hand) == 0 or len(attacker.hand) == 0)
GameIsOver(deckSize, dOut, aOut) == deckSize = 0 /\ (dOut \/ aOut)

\* (defender.success and not attacker.success) or len(defender.hand) == 0
DefenderWinsRound(succD, succA, dOut) == (succD = "True" /\ succA # "True") \/ dOut

\* the test of the elif without its second operand
AttackerWinsRoundBySuccess(succA, succD, aOut) == succA = "True" /\ succD # "True"

\* (attacker.success and not defender.success) or len(attacker.hand) == 0
AttackerWinsRound(succA, succD, aOut) == (succA = "True" /\ succD # "True") \/ aOut

\* playGame after the inner loop: the game is over, or the round is resolved (the
\* defender wins it, or the attacker does), both players refill, and the next
\* round starts
Resolve ==
    /\ pc = "resolve"
    /\ LET aOut == Len(hand[attacker]) = 0
           dOut == Len(hand[defender]) = 0
           over == GameIsOver(Len(deck), dOut, aOut)
           unset == ~over /\ success[defender] = "unset"
           defWins == ~over /\ ~unset
                      /\ DefenderWinsRound(success[defender], success[attacker], dOut)
           attWins == ~over /\ ~unset /\ ~defWins
                      /\ AttackerWinsRound(success[attacker], success[defender], aOut)
           settled == defWins \/ attWins
           hand1 == IF attWins THEN [hand EXCEPT ![defender] = @ \o table] ELSE hand
           ra == IF settled THEN refillHand(hand1[attacker], deck, unseenCards[attacker])
                 ELSE [hand |-> hand1[attacker], deck |-> deck, unseen |-> unseenCards[attacker]]
           rd == IF settled THEN refillHand(hand1[defender], ra.deck, unseenCards[defender])
                 ELSE [hand |-> hand1[defender], deck |-> ra.deck,
                       unseen |-> unseenCards[defender]]
           hand2 == [hand1 EXCEPT ![attacker] = ra.hand, ![defender] = rd.hand]
           att2 == IF defWins THEN defender ELSE attacker
           def2 == IF defWins THEN attacker ELSE defender
           last == ~over /\ ~unset /\ Len(rd.deck) = 0 /\ Len(hand2[att2]) = 0
           again == ~over /\ ~unset /\ ~last
       IN  /\ trashCards' = IF defWins THEN trashCards \o table ELSE trashCards
           /\ opponentHand' = IF attWins THEN [opponentHand EXCEPT ![attacker] = @ \o table]
                              ELSE opponentHand
           /\ maxCards' = IF attWins
                          THEN [p \in Players |-> RaiseMax(maxCards[p], table)]
                          ELSE maxCards
           /\ hand' = hand2
           /\ deck' = rd.deck
           /\ unseenCards' = [unseenCards EXCEPT ![attacker] = ra.unseen,
                                                 ![defender] = rd.unseen]
           /\ attacker' = att2
           /\ defender' = def2
           /\ table' = IF again THEN <<>> ELSE table
           /\ preAttackState' =
                  IF last THEN StateTuple(att2, Len(hand2[def2]), Len(rd.deck), "trashCards")
                  ELSE IF again
                  THEN StateTuple(att2, Len(hand2[def2]), Len(rd.deck), "unseenCards")
                  ELSE preAttackState
           /\ postAttackState' = IF again THEN Rebind(postAttackState, table)
                                 ELSE postAttackState
           /\ preDefendState' = IF again THEN Rebind(preDefendState, table) ELSE preDefendState
           /\ postDefendState' = IF again THEN Rebind(postDefendState, table)
                                 ELSE postDefendState
           /\ lastRound' = [how |-> IF over THEN "gameOver"
                                    ELSE IF defWins THEN "defenderWins"
                                    ELSE IF attWins THEN "attackerWins"
                                    ELSE "neither",
                            lastCall |-> lastMove.call, lastRet |-> lastMove.ret,
                            cards |-> table,
                            attacker |-> attacker]
           /\ err' = IF unset THEN "AttributeError" ELSE "none"
           /\ pc' = IF unset THEN "crashed"
                    ELSE IF over \/ last THEN "outcome"
                    ELSE "attack"
    /\ UNCHANGED <<extracted, search, train, playerType, numGames, gameNo, trumpCard, wins, success,
                   classWeights, instWeights, weightFiles, lastMove, lastUpdates, result>>

\* the move playGame asks for after the main loop, when the player who still
\* holds cards holds exactly one: a record of who moved and what the call did
NoTieCheck ==
    [made |-> FALSE, call |-> "none", who |-> attacker,
     m |-> MoveResult(NO_VALID_MOVES, "none", <<>>, table, InitMaxCards, "unset",
                      NoSelCall(<<>>, table))]

TieCheck ==
    IF Len(hand[defender]) = 0
    THEN IF Len(hand[attacker]) = 1
         THEN {[made |-> TRUE, call |-> "attack", who |-> attacker, m |-> x] :
                  x \in attack(ClassOf(attacker), hand[attacker], table, maxCards[attacker],
                               success[attacker], CtxOf(attacker, 0, 0))}
         ELSE {NoTieCheck}
    ELSE IF Len(hand[attacker]) = 0 /\ Len(hand[defender]) = 1
    THEN {[made |-> TRUE, call |-> "defend", who |-> defender, m |-> x] :
             x \in defend(ClassOf(defender), hand[defender], table, maxCards[defender],
                          success[defender], CtxOf(defender, 0, 0))}
    ELSE {NoTieCheck}

\* the reward of the defender's terminal update: 1 when the defender has won
DefendReward(dOut) == IF dOut THEN 1 ELSE -1

\* the attacker's terminal update with the reward of the defender's
AttackRewardOfDefender(dOut) == IF dOut THEN 1 ELSE -1

\* the reward of the attacker's terminal update: 1 when the attacker has won
AttackReward(dOut) == IF dOut THEN -1 ELSE 1

\* playGame after the main loop: the tie check, the winner, the terminal updates
Outcome ==
    /\ pc = "outcome"
    /\ \E t \in TieCheck :
        LET dOut == Len(hand[defender]) = 0
            aOut == ~dOut /\ Len(hand[attacker]) = 0
            crash == t.made /\ t.m.raised # "none"
            tie == t.made /\ ~crash /\ t.m.success = "True"
            won == ~crash /\ ~tie /\ (dOut \/ aOut)
            winner == IF dOut THEN defender ELSE attacker
            hand1 == IF t.made THEN [hand EXCEPT ![t.who] = t.m.hand] ELSE hand
            table1 == IF t.made THEN t.m.table ELSE table
            upd == won /\ train
        IN  \E uD \in {TDUpdateDefend(ClassOf(defender), instWeights[defender], classWeights,
                                      preDefendState, NoneState, DefendReward(dOut),
                                      hand1, opponentHand, trumpCard, table1)},
               uA \in {TDUpdateAttack(ClassOf(attacker), instWeights[attacker], classWeights,
                                      preAttackState, NoneState, AttackReward(dOut),
                                      hand1, opponentHand, trumpCard, table1)} :
            LET cD == UpdateCall(defender, "defend", preDefendState, NoneState,
                                 DefendReward(dOut), instWeights[defender], uD,
                                 classWeights)
                cA == UpdateCall(attacker, "attack", preAttackState, NoneState,
                                 AttackReward(dOut), instWeights[attacker], uA,
                                 classWeights)
                \* the winner's update is called first; an exception ends the program
                both == (IF dOut THEN uD ELSE uA).raised = "none"
                raised == IF ~both THEN (IF dOut THEN uD ELSE uA).raised
                          ELSE (IF dOut THEN uA ELSE uD).raised
            IN
            /\ hand' = hand1
            /\ table' = table1
            /\ maxCards' = IF t.made THEN [maxCards EXCEPT ![t.who] = t.m.maxCards]
                           ELSE maxCards
            /\ success' = IF t.made THEN [success EXCEPT ![t.who] = t.m.success] ELSE success
            /\ lastMove' = IF t.made THEN MoveCall(t.call, t.who, t.m, hand[t.who], table)
                           ELSE lastMove
            /\ wins' = IF won THEN [wins EXCEPT ![winner] = @ + 1] ELSE wins
            /\ instWeights' =
                   IF ~upd THEN instWeights
                   ELSE IF dOut
                   THEN [instWeights EXCEPT ![defender] = uD.inst,
                                            ![attacker] = IF both THEN uA.inst ELSE @]
                   ELSE [instWeights EXCEPT ![attacker] = uA.inst,
                                            ![defender] = IF both THEN uD.inst ELSE @]
            /\ lastUpdates' = IF ~upd THEN <<>>
                              ELSE IF both THEN (IF dOut THEN <<cD, cA>> ELSE <<cA, cD>>)
                              ELSE (IF dOut THEN <<cD>> ELSE <<cA>>)
            /\ result' = IF crash THEN "none"
                         ELSE IF tie THEN "tie"
                         ELSE IF won THEN winner
                         ELSE "nobody"
            /\ err' = IF crash THEN t.m.raised ELSE IF upd THEN raised ELSE "none"
            /\ pc' = IF crash \/ (upd /\ raised # "none") THEN "crashed" ELSE "reset"
    /\ UNCHANGED <<extracted, search, train, playerType, numGames, gameNo, deck, trumpCard, opponentHand,
                   unseenCards, attacker, defender, trashCards, preAttackState,
                   postAttackState, preDefendState, postDefendState, classWeights,
                   weightFiles, lastRound>>

\* main's loop body after playGame: both players reset; playGame's locals are gone
Reset ==
    /\ pc = "reset"
    /\ hand' = [p \in Players |-> <<>>]
    /\ opponentHand' = [p \in Players |-> <<>>]
    /\ gameNo' = gameNo + 1
    /\ deck' = <<>>
    /\ trumpCard' = NoCard
    /\ table' = <<>>
    /\ trashCards' = <<>>
    /\ attacker' = pOne
    /\ defender' = pTwo
    /\ preAttackState' = NoneState
    /\ postAttackState' = NoneState
    /\ preDefendState' = NoneState
    /\ postDefendState' = NoneState
    /\ pc' = IF gameNo + 1 < numGames THEN "playGame" ELSE "writeWeights"
    /\ UNCHANGED <<extracted, search, train, playerType, numGames, maxCards, unseenCards, wins, success,
                   classWeights, instWeights, weightFiles, lastMove, lastRound,
                   lastUpdates, result, err>>

\* ReflexCPUPlayer.writeWeights, main's last statement
WriteWeights ==
    /\ pc = "writeWeights"
    /\ weightFiles' = [attack |-> File(classWeights.attack),
                       defend |-> File(classWeights.defend)]
    /\ pc' = "done"
    /\ UNCHANGED <<extracted, search, train, playerType, numGames, gameNo, deck, trumpCard, hand, opponentHand,
                   maxCards, unseenCards, wins, success, attacker, defender, table,
                   trashCards, preAttackState, postAttackState, preDefendState,
                   postDefendState, classWeights, instWeights, lastMove, lastRound,
                   lastUpdates, result, err>>

Next ==
    \/ Main
    \/ PlayGame
    \/ AttackMove
    \/ DefendMove
    \/ Resolve
    \/ Outcome
    \/ Reset
    \/ WriteWeights

Spec == Init /\ [][Next]_vars

\* the places main and playGame can be at
ProgramPoints ==
    {"main", "playGame", "attack", "defend", "resolve", "outcome", "reset", "writeWeights",
     "done", "crashed"}

\* the program has neither returned nor died of an exception
Running == pc \notin {"done", "crashed"}

\* the program moves on to its next place
MovesOn == Running /\ pc' \in ProgramPoints

\* main runs on: a program that has not ended executes its next statement (every
\* action of Next leads to another place, and one is possible wherever the
\* program is running)
SpecFair == Spec /\ WF_pc(MovesOn)

----------------------------------------------------------------------------
(* The functions called on their own: getPlayOrder on two full hands, and  *)
(* attack, defend, TDUpdateAttack and TDUpdateDefend of one player, pOne,  *)
(* with a hand, a table, a trump card and weights of any kind.             *)

\* the sequences of n distinct cards out of cards
RECURSIVE CardSeqs(_, _)
CardSeqs(cards, n) ==
    IF n = 0 THEN {<<>>}
    ELSE UNION {{Append(s, c) : c \in cards \ Range(s)} : s \in CardSeqs(cards, n - 1)}

CardSeqsUpTo(cards, n) == UNION {CardSeqs(cards, k) : k \in 0 .. n}

\* the weight vectors a call is made with
\* (a weight on len(hand), which tells stopping from playing, or on len(clubs),
\* which tells the options from one another)
CallWeights ==
    {ZeroWeights, OneHot(1, Unit \div 10), OneHot(1, -(Unit \div 10)),
     OneHot(15, Unit \div 10), OneHot(15, -(Unit \div 10))}

\* attackWeights and defendWeights of a call: the same vector, or two that differ
CallWeightPairs ==
    {[attack |-> w, defend |-> w] : w \in CallWeights}
    \cup {[attack |-> OneHot(1, Unit \div 10), defend |-> OneHot(15, -(Unit \div 10))],
          [attack |-> OneHot(15, -(Unit \div 10)), defend |-> OneHot(1, Unit \div 10)]}

\* attackWeights and defendWeights of an update call
UpdateWeightPairs ==
    {[attack |-> ZeroWeights, defend |-> ZeroWeights],
     [attack |-> OneHot(1, Unit \div 10), defend |-> OneHot(15, -(Unit \div 10))],
     [attack |-> OneHot(15, -(Unit \div 10)), defend |-> OneHot(1, Unit \div 10)]}

\* the cards two full hands and the deck below them are drawn from
OrderCards == {DeckCard(k) : k \in 0 .. DeckSize + 1}

\* the hands and the table of a call: two full hands for getPlayOrder, a hand
\* that is not empty and a table for the others (extractFeatures is also given
\* the empty hand, and a card known to be the opponent's; a TD update is called
\* with at most one card on the table); no card is in two places
InitCalls(kinds) ==
    /\ pc \in kinds
    /\ IF pc = "order"
       THEN \E h1 \in CardSeqs(OrderCards, HandSize) :
                \E h2 \in CardSeqs(OrderCards \ Range(h1), HandSize) :
                    /\ hand = [p \in Players |-> IF p = pOne THEN h1 ELSE h2]
                    /\ table = <<>>
       ELSE \E h1 \in CardSeqsUpTo(DeckCards, HandSize)
                           \ (IF pc = "features" THEN {} ELSE {<<>>}) :
                \E tbl \in CardSeqsUpTo(DeckCards \ Range(h1),
                                         IF pc = "update" THEN 1 ELSE HandSize) :
                    /\ hand = [p \in Players |-> IF p = pOne THEN h1 ELSE <<>>]
                    /\ table = tbl
    /\ train = TRUE
    /\ playerType \in IF pc = "call" THEN {"random", "simple", "reflex"} ELSE {"reflex"}
    /\ classWeights \in IF playerType = "reflex" /\ pc = "call" THEN CallWeightPairs
                         ELSE IF pc = "update" THEN UpdateWeightPairs
                         ELSE {[attack |-> ZeroWeights, defend |-> ZeroWeights]}
    /\ trumpCard \in IF pc = "order"
                     THEN OrderCards \ (Range(hand[pOne]) \cup Range(hand[pTwo]))
                     ELSE {Card(s, SetMin(Card_RANKS)) : s \in {c.suit : c \in DeckCards}}
    /\ numGames = 0
    /\ gameNo = 0
    /\ deck = IF pc = "order" THEN <<trumpCard>> ELSE <<>>
    /\ weightFiles = [attack |-> NoFile, defend |-> NoFile]
    /\ \E known \in IF pc = "features"
                     THEN CardSeqsUpTo(DeckCards \ (Range(hand[pOne]) \cup Range(table)), 1)
                     ELSE {<<>>} :
           opponentHand = [p \in Players |-> IF p = pOne THEN known ELSE <<>>]
    /\ maxCards = [p \in Players |-> InitMaxCards]
    /\ unseenCards = [p \in Players |-> DeckCards]
    /\ wins = [p \in Players |-> 0]
    /\ success = [p \in Players |-> "unset"]
    /\ attacker = pOne
    /\ defender = pTwo
    /\ trashCards = <<>>
    /\ preAttackState = NoneState
    /\ postAttackState = NoneState
    /\ preDefendState = NoneState
    /\ postDefendState = NoneState
    /\ instWeights = [p \in Players |-> NoInstance]
    /\ lastMove = NoMove
    /\ lastRound = NoRound
    /\ lastUpdates = <<>>
    /\ result = "none"
    /\ err = "none"
    /\ search = NoSearch
    /\ extracted = NoFeatures

InitCall == InitCalls({"order", "call"})

InitUpdate == InitCalls({"update"})

\* getPlayOrder(pOne, pTwo, trumpSuit)
CallGetPlayOrder ==
    /\ pc = "order"
    /\ attacker' = getPlayOrder(hand[pOne], hand[pTwo], trumpCard.suit)[1]
    /\ defender' = getPlayOrder(hand[pOne], hand[pTwo], trumpCard.suit)[2]
    /\ pc' = "ordered"
    /\ UNCHANGED <<extracted, search, train, playerType, numGames, gameNo, deck, trumpCard, hand, opponentHand,
                   maxCards, unseenCards, wins, success, table, trashCards, preAttackState,
                   postAttackState, preDefendState, postDefendState, classWeights,
                   instWeights, weightFiles, lastMove, lastRound, lastUpdates, result, err>>

\* what a call of attack or defend by pOne leaves
Moved(call, m) ==
    /\ hand' = [hand EXCEPT ![pOne] = m.hand]
    /\ table' = m.table
    /\ success' = [success EXCEPT ![pOne] = m.success]
    /\ maxCards' = [maxCards EXCEPT ![pOne] = m.maxCards]
    /\ lastMove' = MoveCall(call, pOne, m, hand[pOne], table)
    /\ err' = m.raised
    /\ pc' = "returned"
    /\ UNCHANGED <<extracted, search, train, playerType, numGames, gameNo, deck, trumpCard, opponentHand,
                   unseenCards, wins, attacker, defender, trashCards, preAttackState,
                   postAttackState, preDefendState, postDefendState, classWeights,
                   instWeights, weightFiles, lastRound, lastUpdates, result>>

\* pOne.attack(table, trumpCard, len(deck), len(pTwo.hand))
CallAttack ==
    /\ pc = "call"
    /\ \E m \in attack(playerType, hand[pOne], table, maxCards[pOne], success[pOne],
                       CtxOf(pOne, Len(deck), Len(hand[pTwo]))) :
           Moved("attack", m)

\* pOne.defend(table, trumpCard, len(deck), len(pTwo.hand)), the table not empty
CallDefend ==
    /\ pc = "call"
    /\ Len(table) > 0
    /\ \E m \in defend(playerType, hand[pOne], table, maxCards[pOne], success[pOne],
                       CtxOf(pOne, Len(deck), Len(hand[pTwo]))) :
           Moved("defend", m)

\* the arguments a TD update is given: a state tuple or None, then a state tuple
\* and reward 0, or None and reward 1, -1 or 0
CallStates == {NoneState, StateTuple(pOne, Len(hand[pTwo]), Len(deck), "unseenCards")}

CallOutcomes ==
    {[newState |-> StateTuple(pOne, Len(hand[pTwo]), Len(deck), "unseenCards"), reward |-> 0],
     [newState |-> NoneState, reward |-> 1],
     [newState |-> NoneState, reward |-> -1],
     [newState |-> NoneState, reward |-> 0]}

\* what a TD update of pOne leaves
UpdateDone(role, state, o, u) ==
    /\ instWeights' = [instWeights EXCEPT ![pOne] = u.inst]
    /\ lastUpdates' = <<UpdateCall(pOne, role, state, o.newState, o.reward,
                                   instWeights[pOne], u, classWeights)>>
    /\ err' = u.raised
    /\ pc' = "returned"
    /\ UNCHANGED <<extracted, search, train, playerType, numGames, gameNo, deck, trumpCard, hand, opponentHand,
                   maxCards, unseenCards, wins, success, attacker, defender, table,
                   trashCards, preAttackState, postAttackState, preDefendState,
                   postDefendState, classWeights, weightFiles, lastMove, lastRound, result>>

\* pOne.TDUpdateAttack(state, newState, reward)
CallTDUpdateAttack ==
    /\ pc = "update"
    /\ \E state \in CallStates, o \in CallOutcomes :
           \E u \in {TDUpdateAttack("reflex", instWeights[pOne], classWeights, state,
                                    o.newState, o.reward, hand, opponentHand, trumpCard,
                                    table)} :
               UpdateDone("attack", state, o, u)

\* pOne.TDUpdateDefend(state, newState, reward)
CallTDUpdateDefend ==
    /\ pc = "update"
    /\ \E state \in CallStates, o \in CallOutcomes :
           \E u \in {TDUpdateDefend("reflex", instWeights[pOne], classWeights, state,
                                    o.newState, o.reward, hand, opponentHand, trumpCard,
                                    table)} :
               UpdateDone("defend", state, o, u)

NextCall ==
    \/ CallGetPlayOrder
    \/ CallAttack
    \/ CallDefend

SpecCall == InitCall /\ [][NextCall]_vars

NextUpdate ==
    \/ CallTDUpdateAttack
    \/ CallTDUpdateDefend

SpecUpdate == InitUpdate /\ [][NextUpdate]_vars

InitFeatures == InitCalls({"features"})

\* the record of a call of extractFeatures
Extracted(h, oppHand, tc, tbl, out) ==
    [called |-> TRUE, hand |-> h, oppHand |-> oppHand, table |-> tbl, trumpCard |-> tc,
     out |-> out]

\* extractFeatures(pOne.hand, pOne.opponentHand, opponentHandSize, trumpCard, table,
\*                 deckSize, pOne.unseenCards)
CallExtractFeatures ==
    /\ pc = "features"
    /\ \E opponentHandSize \in 0 .. HandSize, deckSize \in {0, DeckSize} :
           extracted' = Extracted(hand[pOne], opponentHand[pOne], trumpCard, table,
                                  extractFeatures(hand[pOne], opponentHand[pOne],
                                                  opponentHandSize, trumpCard, table,
                                                  deckSize))
    /\ pc' = "returned"
    /\ UNCHANGED <<search, train, playerType, numGames, gameNo, deck, trumpCard, hand,
                   opponentHand, maxCards, unseenCards, wins, success, attacker, defender,
                   table, trashCards, preAttackState, postAttackState, preDefendState,
                   postDefendState, classWeights, instWeights, weightFiles, lastMove,
                   lastRound, lastUpdates, result, err>>

NextFeatures == CallExtractFeatures

SpecFeatures == InitFeatures /\ [][NextFeatures]_vars

\* the runs of main together with extractFeatures and the TD updates called on
\* their own
InitLengths == Init \/ InitCalls({"features", "update"})

NextLengths ==
    \/ Main
    \/ PlayGame
    \/ AttackMove
    \/ DefendMove
    \/ Resolve
    \/ Outcome
    \/ Reset
    \/ WriteWeights
    \/ CallExtractFeatures
    \/ CallTDUpdateAttack
    \/ CallTDUpdateDefend

SpecLengths == InitLengths /\ [][NextLengths]_vars

\* the selectors and the TD updates of one ReflexCPUPlayer, whose two weight
\* vectors may differ
InitRoles == InitCalls({"call", "update"})

NextRoles ==
    \/ CallAttack
    \/ CallDefend
    \/ CallTDUpdateAttack
    \/ CallTDUpdateDefend

SpecRoles == InitRoles /\ [][NextRoles]_vars

----------------------------------------------------------------------------
(* SimpleEnhancedAgent.minimaxChoice called on its own: the agent is pOne, *)
(* the deck is empty, both hands hold cards, and it is pOne's move: as the *)
(* attacker on a table of answered cards, or as the defender below an      *)
(* attack card.  getAttackCard and getDefendCard are also called on games  *)
(* whose deck still holds the trump card.                                  *)

\* the weight vector of the agent: it tells the suits of a hand apart
SearchWeights == {OneHot(15, -(Unit \div 10))}

InitSearchWith(deckSizes) ==
    /\ pc = "search"
    /\ attacker \in Players
    /\ defender = Other(attacker)
    /\ \E h1 \in CardSeqsUpTo(DeckCards, HandSize) \ {<<>>} :
           \E h2 \in CardSeqsUpTo(DeckCards \ Range(h1), HandSize) \ {<<>>} :
               \E tbl \in CardSeqsUpTo(DeckCards \ (Range(h1) \cup Range(h2)), HandSize) :
                   /\ Len(tbl) % 2 = IF attacker = pOne THEN 0 ELSE 1
                   /\ hand = [p \in Players |-> IF p = pOne THEN h1 ELSE h2]
                   /\ table = tbl
    /\ \E n \in deckSizes :
           IF n = 0
           THEN /\ trumpCard \in {Card(s, SetMin(Card_RANKS)) : s \in {c.suit : c \in DeckCards}}
                /\ deck = <<>>
           ELSE /\ trumpCard \in DeckCards \ (Range(hand[pOne]) \cup Range(hand[pTwo])
                                                \cup Range(table))
                /\ deck = <<trumpCard>>
    /\ classWeights \in {[attack |-> w, defend |-> w] : w \in SearchWeights}
    /\ train = FALSE
    /\ playerType = "simple"
    /\ numGames = 0
    /\ gameNo = 0
    /\ weightFiles = [attack |-> NoFile, defend |-> NoFile]
    /\ opponentHand = [p \in Players |-> <<>>]
    /\ maxCards = [p \in Players |-> InitMaxCards]
    /\ unseenCards = [p \in Players |-> DeckCards]
    /\ wins = [p \in Players |-> 0]
    /\ success = [p \in Players |-> "unset"]
    /\ trashCards = <<>>
    /\ preAttackState = NoneState
    /\ postAttackState = NoneState
    /\ preDefendState = NoneState
    /\ postDefendState = NoneState
    /\ instWeights = [p \in Players |-> NoInstance]
    /\ lastMove = NoMove
    /\ lastRound = NoRound
    /\ lastUpdates = <<>>
    /\ result = "none"
    /\ err = "none"
    /\ search = NoSearch
    /\ extracted = NoFeatures

\* a game with an empty deck
InitSearch == InitSearchWith({0})

\* the record of a call of the method via on the game g: the values are those
\* getValueRec returned, none when it was not called
Searched(via, self, g, cards, r) ==
    [called |-> TRUE, via |-> via, self |-> self.playerNum, depth |-> self.depth,
     cards |-> cards, values |-> r.keys, choice |-> r.card, before |-> g,
     after |-> r.heap.game]

SearchCall(self, g, cards) ==
    /\ search' = Searched("minimaxChoice", self, g, cards,
                          minimaxChoice(self, GameHeap(g), cards))
    /\ pc' = "searched"

\* agent.minimaxChoice(cards, game), cards the options of the agent in game
CallMinimaxChoice ==
    /\ pc = "search"
    /\ \E g \in {Game(hand, table, attacker, deck, trumpCard)} :
           SearchCall(Agent(pOne, SearchDepth, classWeights.attack, classWeights.defend),
                      g, NodeCards(g, pOne))
    /\ UNCHANGED <<extracted, train, playerType, numGames, gameNo, deck, trumpCard, hand, opponentHand,
                   maxCards, unseenCards, wins, success, attacker, defender, table,
                   trashCards, preAttackState, postAttackState, preDefendState,
                   postDefendState, classWeights, instWeights, weightFiles, lastMove,
                   lastRound, lastUpdates, result, err>>

NextSearch == CallMinimaxChoice

SpecSearch == InitSearch /\ [][NextSearch]_vars

\* agent.minimaxChoice(cards, game), cards the options of the agent in game in
\* any order
CallMinimaxChoiceAnyOrder ==
    /\ pc = "search"
    /\ \E g \in {Game(hand, table, attacker, deck, trumpCard)} :
           \E cards \in Perms(Range(NodeCards(g, pOne))) :
               SearchCall(Agent(pOne, SearchDepth, classWeights.attack, classWeights.defend),
                          g, cards)
    /\ UNCHANGED <<extracted, train, playerType, numGames, gameNo, deck, trumpCard, hand,
                   opponentHand, maxCards, unseenCards, wins, success, attacker, defender,
                   table, trashCards, preAttackState, postAttackState, preDefendState,
                   postDefendState, classWeights, instWeights, weightFiles, lastMove,
                   lastRound, lastUpdates, result, err>>

NextOrder == CallMinimaxChoiceAnyOrder

\* the cards of h by rising suit and rank
Ascending(h) ==
    \A i \in 1 .. Len(h) - 1 :
        \/ h[i].suit < h[i + 1].suit
        \/ h[i].suit = h[i + 1].suit /\ h[i].rank < h[i + 1].rank

\* a game with an empty deck, one order for each hand: the orders of the options
\* are drawn by the call
InitOrder == InitSearch /\ \A p \in Players : Ascending(hand[p])

SpecOrder == InitOrder /\ [][NextOrder]_vars

\* agent.minimaxChoice(cards, game) of an agent of any depth up to the default
CallMinimaxChoiceDepth ==
    /\ pc = "search"
    /\ \E depth \in 0 .. SearchDepth, g \in {Game(hand, table, attacker, deck, trumpCard)} :
           SearchCall(Agent(pOne, depth, classWeights.attack, classWeights.defend),
                      g, NodeCards(g, pOne))
    /\ UNCHANGED <<extracted, train, playerType, numGames, gameNo, deck, trumpCard, hand,
                   opponentHand, maxCards, unseenCards, wins, success, attacker, defender,
                   table, trashCards, preAttackState, postAttackState, preDefendState,
                   postDefendState, classWeights, instWeights, weightFiles, lastMove,
                   lastRound, lastUpdates, result, err>>

NextDepth == CallMinimaxChoiceDepth

SpecDepth == InitOrder /\ [][NextDepth]_vars

\* what a call of getAttackCard or getDefendCard leaves
GetCardCall(via, self, g, cards, r) ==
    /\ search' = Searched(via, self, g, cards, r)
    /\ pc' = "searched"
    /\ UNCHANGED <<extracted, train, playerType, numGames, gameNo, deck, trumpCard, hand,
                   opponentHand, maxCards, unseenCards, wins, success, attacker, defender,
                   table, trashCards, preAttackState, postAttackState, preDefendState,
                   postDefendState, classWeights, instWeights, weightFiles, lastMove,
                   lastRound, lastUpdates, result, err>>

\* agent.getAttackCard(cards, game), the agent attacking
CallGetAttackCard ==
    /\ pc = "search"
    /\ attacker = pOne
    /\ \E self \in {Agent(pOne, SearchDepth, classWeights.attack, classWeights.defend)},
          g \in {Game(hand, table, attacker, deck, trumpCard)} :
           \E cards \in {getAttackOptions(g, pOne)} :
               \E r \in {getAttackCard(self, GameHeap(g), cards)} :
                   GetCardCall("getAttackCard", self, g, cards, r)

\* agent.getDefendCard(cards, game), the agent defending
CallGetDefendCard ==
    /\ pc = "search"
    /\ attacker = pTwo
    /\ \E self \in {Agent(pOne, SearchDepth, classWeights.attack, classWeights.defend)},
          g \in {Game(hand, table, attacker, deck, trumpCard)} :
           \E cards \in {getDefendOptions(g, pOne)} :
               \E r \in {getDefendCard(self, GameHeap(g), cards)} :
                   GetCardCall("getDefendCard", self, g, cards, r)

\* the record of a call of getValueRec for the move card: the value it returned
Valued(card, r) == [card |-> card, keys |-> <<r.v>>, heap |-> r.heap]

\* self.getValueRec(pTwo, game, card, depth, -inf, +inf): a node of the search of
\* either agent, at any depth, in which pOne has just been given the move card
\* and the move ends the game
CallGetValueRec ==
    /\ pc = "search"
    /\ \E who \in Players, depth \in 0 .. SearchDepth :
           \E self \in {Agent(who, depth, classWeights.attack, classWeights.defend)},
              g \in {Game(hand, table, attacker, deck, trumpCard)} :
               \E card \in {c \in Range(NodeCards(g, pOne)) : gameOver(MoveOn(g, pOne, c))} :
                   \E r \in {getValueRec(self, GameHeap(g), pTwo, card, depth, NegInf,
                                         PosInf)} :
                       GetCardCall("getValueRec", self, g, NodeCards(g, pOne),
                                   Valued(card, r))

NextNode == CallGetValueRec

SpecNode == InitSearch /\ [][NextNode]_vars

InitAgent == InitSearchWith({0, 1})

NextAgent ==
    \/ CallGetAttackCard
    \/ CallGetDefendCard

SpecAgent == InitAgent /\ [][NextAgent]_vars

\* the selectors of both agents: attack and defend of a player, and minimaxChoice
InitSelect == InitCalls({"call"}) \/ InitSearch

NextSelect ==
    \/ CallAttack
    \/ CallDefend
    \/ CallMinimaxChoice

SpecSelect == InitSelect /\ [][NextSelect]_vars

----------------------------------------------------------------------------
(* The properties *)

Roles == {"attack", "defend"}

\* C1: the TD updates of a training run land in the shared weight vectors: at
\* every moment of the run both players look up the same attack vector and the
\* same defend vector, and the files writeWeights leaves hold the vectors the
\* updates of the run produced
C1_UpdatesShared ==
    train =>
        \A role \in Roles :
            /\ Lookup(instWeights[pOne], classWeights, role)
                   = Lookup(instWeights[pTwo], classWeights, role)
            /\ pc = "done" =>
                   \A p \in Players :
                       instWeights[p][role].set => weightFiles[role].w = instWeights[p][role].w

\* the trumps among the cards of a hand
TrumpsIn(h) == {c \in Range(h) : c.suit = trumpCard.suit}

\* the player holding the trump of least rank; pOne when nobody holds a trump
LowestTrumpHolder ==
    LET all == TrumpsIn(hand[pOne]) \cup TrumpsIn(hand[pTwo])
    IN  IF all = {} THEN pOne
        ELSE IF \E c \in TrumpsIn(hand[pOne]) : \A d \in all : c.rank <= d.rank THEN pOne
        ELSE pTwo

\* C2: getPlayOrder makes the holder of the lowest trump of the two hands the
\* first attacker, whatever the order of the cards in the hands; the only holder
\* of trumps attacks, and pOne attacks when there is no trump
C2_LowestTrumpAttacks ==
    pc = "ordered" => attacker = LowestTrumpHolder /\ defender = Other(LowestTrumpHolder)

\* C3: a TD update called with None as the state returns normally and leaves
\* both weight vectors of the player as they were, in both roles
C3_NoneStateNoOp ==
    \A i \in 1 .. Len(lastUpdates) :
        lastUpdates[i].preNone =>
            /\ lastUpdates[i].raised = "none"
            /\ lastUpdates[i].attackAfter = lastUpdates[i].attackBefore
            /\ lastUpdates[i].defendAfter = lastUpdates[i].defendBefore

\* card c legally beats the attack card a
Beats(c, a) ==
    \/ c.suit = a.suit /\ c.rank > a.rank
    \/ c.suit = trumpCard.suit /\ a.suit # trumpCard.suit

\* C4: a card defend() places on the table beats the card that was table[0]
\* when defend() was called (same suit and higher rank, or a trump against a
\* card that is no trump), and the defending options are exactly the cards of
\* the hand that do
C4_DefenceBeats ==
    lastMove.call = "defend" /\ lastMove.raised = "none" =>
        /\ lastMove.ret.isCard =>
               /\ lastMove.ret.card \in Range(lastMove.handBefore)
               /\ Beats(lastMove.ret.card, lastMove.tableBefore[1])
        /\ Range(lastMove.sel.options)
               = {c \in Range(lastMove.handBefore) : Beats(c, lastMove.tableBefore[1])}

C4_Witness ==
    /\ lastMove.call = "defend"
    /\ lastMove.ret.isCard
    /\ lastMove.ret.card.suit = trumpCard.suit
    /\ lastMove.tableBefore[1].suit # trumpCard.suit
    /\ Len(lastMove.sel.options) < Len(lastMove.handBefore)

\* the ranks of the cards of a table
RanksOn(tbl) == {tbl[i].rank : i \in 1 .. Len(tbl)}

\* C5: a card attack() places on a table that is not empty has the rank of a
\* card of that table, and the attacking options are exactly the cards of the
\* hand whose rank is on the table; on an empty table attack() plays one card
\* of the hand and never passes
C5_AttackMatches ==
    lastMove.call = "attack" /\ lastMove.raised = "none" =>
        IF Len(lastMove.tableBefore) > 0
        THEN /\ lastMove.ret.isCard =>
                    /\ lastMove.ret.card \in Range(lastMove.handBefore)
                    /\ lastMove.ret.card.rank \in RanksOn(lastMove.tableBefore)
             /\ Range(lastMove.sel.options)
                    = {c \in Range(lastMove.handBefore) :
                           c.rank \in RanksOn(lastMove.tableBefore)}
        ELSE /\ lastMove.ret.isCard
             /\ lastMove.ret.card \in Range(lastMove.handBefore)
             /\ Len(lastMove.handAfter) = Len(lastMove.handBefore) - 1
             /\ lastMove.tableAfter = <<lastMove.ret.card>>

C5_Witness ==
    /\ lastMove.call = "attack"
    /\ Len(lastMove.tableBefore) > 0
    /\ lastMove.ret.isCard
    /\ Len(lastMove.sel.options) < Len(lastMove.handBefore)

\* C6: every attack card placed on the table is followed by a defend() call
\* before the round is resolved: when the defender picks up the table, the last
\* call of the round was the defend() that answered the top attack card
C6_DefendBeforePickUp ==
    lastRound.how = "attackerWins" => lastRound.lastCall = "defend"

\* C7: when attack() or defend() returns a card, success is True, the card is
\* gone from the hand and is table[0] above the cards that were on the table;
\* when it returns NO_VALID_MOVES or PASS_TURN, success is False and the hand
\* and the table are as they were
C7_SuccessAndFrame ==
    lastMove.call # "none" /\ lastMove.raised = "none" =>
        IF lastMove.ret.isCard
        THEN /\ lastMove.success = "True"
             /\ lastMove.ret.card \in Range(lastMove.handBefore)
             /\ lastMove.handAfter
                    = SelectSeq(lastMove.handBefore, LAMBDA c : c # lastMove.ret.card)
             /\ lastMove.tableAfter = <<lastMove.ret.card>> \o lastMove.tableBefore
        ELSE /\ lastMove.ret \in {NO_VALID_MOVES, PASS_TURN}
             /\ lastMove.success = "False"
             /\ lastMove.handAfter = lastMove.handBefore
             /\ lastMove.tableAfter = lastMove.tableBefore

C7_Witness ==
    /\ lastMove.call = "defend"
    /\ lastMove.ret.isCard
    /\ lastMove.success = "True"
    /\ Len(lastMove.tableBefore) > 1
    /\ Len(lastMove.handAfter) > 0

\* a call of attack or defend by a ReflexCPUPlayer that asked the selector kind
ReflexCalled(kind) ==
    /\ lastMove.sel.kind = kind
    /\ lastMove.sel.cls = "reflex"
    /\ Len(lastMove.sel.options) > 0

\* C8: with options that are not empty, chooseAttackCard and chooseDefenseCard
\* of ReflexCPUPlayer return -1 or an index into the options, and beginAttack
\* returns an index into the hand, never -1
C8_IndexInRange ==
    /\ ReflexCalled("beginAttack") =>
           /\ lastMove.raised = "none"
           /\ lastMove.sel.idx \in 0 .. Len(lastMove.sel.options) - 1
    /\ ReflexCalled("chooseAttackCard") \/ ReflexCalled("chooseDefenseCard") =>
           /\ lastMove.raised = "none"
           /\ lastMove.sel.idx \in -1 .. Len(lastMove.sel.options) - 1

C8_Witness ==
    /\ ReflexCalled("chooseDefenseCard")
    /\ Len(lastMove.sel.options) > 1
    /\ lastMove.sel.idx = Len(lastMove.sel.options) - 1

\* C10: chooseAttackCard and chooseDefenseCard return -1 exactly when the score
\* of the stop state is greater than the score of every option; otherwise, also
\* when the stop score equals the best score, they return the index of an
\* option of the best score
C10_StopIffStrictlyBetter ==
    ReflexCalled("chooseAttackCard") \/ ReflexCalled("chooseDefenseCard") =>
        /\ Len(lastMove.sel.scores) = Len(lastMove.sel.options)
        /\ lastMove.sel.idx = -1
               <=> \A i \in 1 .. Len(lastMove.sel.scores) :
                       lastMove.sel.stopV > lastMove.sel.scores[i]
        /\ lastMove.sel.idx # -1 =>
               /\ lastMove.sel.idx + 1 \in 1 .. Len(lastMove.sel.scores)
               /\ \A i \in 1 .. Len(lastMove.sel.scores) :
                      lastMove.sel.scores[lastMove.sel.idx + 1] >= lastMove.sel.scores[i]

C10_Witness ==
    /\ ReflexCalled("chooseAttackCard")
    /\ lastMove.sel.idx = -1
    /\ lastMove.ret = PASS_TURN

\* a call in which the stop score equals the best option score, and the option
\* is returned
C10_TieKeepsOption ==
    /\ ReflexCalled("chooseDefenseCard")
    /\ lastMove.sel.idx # -1
    /\ lastMove.sel.stopV = lastMove.sel.scores[lastMove.sel.idx + 1]

\* C9: move selection has no side effects: beginAttack, chooseAttackCard and
\* chooseDefenseCard of ReflexCPUPlayer leave the hand and the table list they
\* are given as they were, and minimaxChoice leaves the game object it is given
\* as it was
C9_SelectionHasNoSideEffects ==
    /\ lastMove.sel.cls = "reflex" =>
           /\ lastMove.sel.handOut = lastMove.sel.handIn
           /\ lastMove.sel.tableOut = lastMove.sel.tableIn
    /\ search.called => search.after = search.before

C9_Witness ==
    /\ search.called
    /\ Len(search.cards) > 1
    /\ search.choice # END_ROUND
    /\ search.choice # search.cards[1]

\* the Python index of the first greatest score
FirstBest(scores) ==
    CHOOSE i \in 0 .. Len(scores) - 1 :
        /\ \A j \in 1 .. Len(scores) : scores[j] <= scores[i + 1]
        /\ \A j \in 1 .. i : scores[j] < scores[i + 1]

\* C11: chooseAction is a stable argmax: the index a ReflexCPUPlayer selector
\* returns, when it is not the stop sentinel, is the smallest index of an option
\* of the greatest score; with an all-zero weight vector, where all options
\* score equally, beginAttack returns index 0
C11_StableArgmax ==
    /\ \A kind \in {"beginAttack", "chooseAttackCard", "chooseDefenseCard"} :
           ReflexCalled(kind) /\ lastMove.sel.idx # -1 =>
               /\ Len(lastMove.sel.scores) = Len(lastMove.sel.options)
               /\ lastMove.sel.idx = FirstBest(lastMove.sel.scores)
    /\ ReflexCalled("beginAttack") /\ classWeights.attack = ZeroWeights =>
           /\ \A i \in 1 .. Len(lastMove.sel.scores) :
                  lastMove.sel.scores[i] = lastMove.sel.scores[1]
           /\ lastMove.sel.idx = 0

\* a tie of two options under weights that are not zero, the first is returned
C11_Witness ==
    /\ ReflexCalled("beginAttack")
    /\ classWeights.attack # ZeroWeights
    /\ Len(lastMove.sel.options) > 1
    /\ lastMove.sel.scores[1] = lastMove.sel.scores[2]
    /\ lastMove.sel.idx = 0
    /\ lastMove.ret = Played(lastMove.handBefore[1])

\* the position of len(defendCards) in the feature vector
DefendStrength == 26

\* the cards of the highest rank on a table
Highest(tbl) == {t \in Range(tbl) : \A u \in Range(tbl) : u.rank <= t.rank}

\* card c can legally beat the highest card of the table: a higher card of its
\* suit, or a trump
BeatsHighest(c, tbl, tc) ==
    \/ \E t \in Highest(tbl) : c.suit = t.suit /\ c.rank > t.rank
    \/ c.suit = tc.suit

\* C12: the defend-strength feature counts, for a table that is not empty,
\* exactly the cards of the hand that can legally beat the highest table rank
\* (a higher rank in the same suit, or a trump; a higher card of another suit
\* that is no trump is not counted), and the whole hand for an empty table
C12_DefendStrengthIsLegal ==
    extracted.called =>
        /\ Len(extracted.out) >= DefendStrength
        /\ extracted.out[DefendStrength]
               = IF Len(extracted.table) > 0
                 THEN Unit * Cardinality({c \in Range(extracted.hand) :
                                             BeatsHighest(c, extracted.table,
                                                          extracted.trumpCard)})
                 ELSE Unit * Len(extracted.hand)

\* the score of playing card from the hand h onto the table tbl, under weights w
ScoreUnder(w, h, tbl, card) ==
    logisticValue(w, extractFeatures(Remove(h, card), opponentHand[pOne], Len(hand[pTwo]),
                                     trumpCard, tbl \o <<card>>, Len(deck)))

\* every score of the last selector call was computed under the weights w
ScoredUnder(w) ==
    /\ Len(lastMove.sel.scores) = Len(lastMove.sel.options)
    /\ \A i \in 1 .. Len(lastMove.sel.options) :
           lastMove.sel.scores[i]
               = ScoreUnder(w, lastMove.handBefore, lastMove.tableBefore,
                            lastMove.sel.options[i])

\* the score of stopping with the cards held, under weights w
StopUnder(w, cards) ==
    logisticValue(w, extractFeatures(cards, opponentHand[pOne],
                                     Max(Len(hand[pTwo]), HandSize), trumpCard, <<>>,
                                     Len(deck) - Max(0, HandSize - Len(cards))
                                               - Max(0, HandSize - Len(hand[pTwo]))))

\* the state tuple a direct update call was given
UpdatedState == StateTuple(pOne, Len(hand[pTwo]), Len(deck), "unseenCards")

\* the vector a TD step from the weights w makes for the update call c
StepUnder(w, c) ==
    TDStep(w, StateFeatures(UpdatedState, hand, opponentHand, trumpCard, table),
           ~c.postNone,
           IF c.postNone THEN <<>>
           ELSE StateFeatures(UpdatedState, hand, opponentHand, trumpCard, table),
           c.reward)

\* C13: the attack and defend weight vectors are never mixed: TDUpdateAttack
\* makes the new attack vector from the attack vector alone and leaves the
\* defend vector as it was, TDUpdateDefend does the same with the roles
\* exchanged, beginAttack and chooseAttackCard compute every score with the
\* attack weights and chooseDefenseCard with the defend weights
C13_WeightsNeverMixed ==
    /\ \A i \in 1 .. Len(lastUpdates) :
           LET c == lastUpdates[i]
           IN  /\ c.role = "attack" =>
                      /\ c.defendAfter = c.defendBefore
                      /\ c.raised = "none" => c.attackAfter = StepUnder(c.attackBefore, c)
               /\ c.role = "defend" =>
                      /\ c.attackAfter = c.attackBefore
                      /\ c.raised = "none" /\ ~c.preNone =>
                             c.defendAfter = StepUnder(c.defendBefore, c)
    /\ ReflexCalled("beginAttack") \/ ReflexCalled("chooseAttackCard") =>
           ScoredUnder(classWeights.attack)
    /\ ReflexCalled("chooseAttackCard") =>
           lastMove.sel.stopV = StopUnder(classWeights.attack, lastMove.handBefore)
    /\ ReflexCalled("chooseDefenseCard") =>
           /\ ScoredUnder(classWeights.defend)
           /\ lastMove.sel.stopV
                  = StopUnder(classWeights.defend, lastMove.handBefore \o lastMove.tableBefore)

\* a defence chosen under defend weights where the attack weights, which differ,
\* score the options otherwise
C13_Witness ==
    /\ ReflexCalled("chooseDefenseCard")
    /\ lastMove.ret.isCard
    /\ classWeights.attack # classWeights.defend
    /\ ~ScoredUnder(classWeights.attack)

\* an attack update that changed the attack vector while the defend vector differs
C13_UpdateWitness ==
    /\ Len(lastUpdates) = 1
    /\ lastUpdates[1].role = "attack"
    /\ lastUpdates[1].attackAfter # lastUpdates[1].attackBefore
    /\ lastUpdates[1].defendBefore # lastUpdates[1].attackBefore

\* C14: len(weights) = len(features) always: every vector extractFeatures returns
\* has 29 entries, and through loadWeights with missing files and every TD
\* update of either role (reward 0 with a None post-state among them) the attack
\* and the defend vector of the class and of every player keep 29 entries
C14_LengthsAgree ==
    /\ extracted.called => Len(extracted.out) = NumFeatures
    /\ \A role \in Roles :
           /\ Len(classWeights[role]) = NumFeatures
           /\ \A p \in Players : Len(Lookup(instWeights[p], classWeights, role)) = NumFeatures
    /\ \A i \in 1 .. Len(lastUpdates) :
           /\ Len(lastUpdates[i].attackAfter) = NumFeatures
           /\ Len(lastUpdates[i].defendAfter) = NumFeatures

\* an update with reward 0 and a None post-state that changed the vector
C14_Witness ==
    /\ Len(lastUpdates) = 1
    /\ lastUpdates[1].reward = 0
    /\ lastUpdates[1].postNone
    /\ ~lastUpdates[1].preNone
    /\ lastUpdates[1].defendAfter # lastUpdates[1].defendBefore
    /\ Len(lastUpdates[1].defendAfter) = NumFeatures

\* a training run that loaded fresh vectors for a missing file and has updated them
C14_RunWitness ==
    /\ train
    /\ pc = "done"
    /\ \E p \in Players : instWeights[p].attack.set /\ instWeights[p].defend.set

\* the positions of playGame before the outcome is settled
InPlay == {"attack", "defend", "resolve", "outcome"}

\* C15: when a training game ends with a winner, each player is issued exactly
\* one terminal update (post-state None), through the update of the role the
\* player held at the end: reward 1 to the winner, -1 to the loser; every update
\* made earlier in the game had reward 0 and a post-state that is not None
C15_TerminalUpdates ==
    train =>
        /\ pc \in InPlay =>
               \A i \in 1 .. Len(lastUpdates) :
                   lastUpdates[i].reward = 0 /\ ~lastUpdates[i].postNone
        /\ result \in Players => pc # "crashed"
        /\ pc = "reset" /\ result \in Players =>
               /\ Len(lastUpdates) = 2
               /\ lastUpdates[1].who # lastUpdates[2].who
               /\ \A i \in 1 .. Len(lastUpdates) :
                      /\ lastUpdates[i].postNone
                      /\ lastUpdates[i].raised = "none"
                      /\ lastUpdates[i].reward = IF lastUpdates[i].who = result THEN 1 ELSE -1
                      /\ lastUpdates[i].role
                             = IF lastUpdates[i].who = defender THEN "defend" ELSE "attack"

\* a training game won by the attacker, both terminal updates made
C15_Witness ==
    /\ train
    /\ pc = "reset"
    /\ result = attacker
    /\ Len(lastUpdates) = 2
    /\ lastUpdates[1].who = attacker
    /\ lastUpdates[1].reward = 1
    /\ lastUpdates[2].reward = -1

\* a training game won by the defender
C15_DefenderWitness ==
    /\ train
    /\ pc = "reset"
    /\ result = defender
    /\ Len(lastUpdates) = 2

\* C16: when a training game ends in a tie, the update entry point is still
\* called at the end of the game, once for each player, with reward 0
C16_TieUpdates ==
    train /\ pc = "reset" /\ result = "tie" =>
        /\ Len(lastUpdates) = 2
        /\ lastUpdates[1].who # lastUpdates[2].who
        /\ \A i \in 1 .. Len(lastUpdates) :
               lastUpdates[i].postNone /\ lastUpdates[i].reward = 0

\* C17: Player.reset() restores the state of a player for a new game: after the
\* reset that follows a game, the hand and opponentHand of each player are empty
\* and unseenCards and maxCards are those of a freshly constructed player
C17_ResetRestores ==
    gameNo > 0 /\ pc \in {"playGame", "writeWeights", "done"} =>
        \A p \in Players :
            /\ hand[p] = <<>>
            /\ opponentHand[p] = <<>>
            /\ unseenCards[p] = DeckCards
            /\ maxCards[p] = InitMaxCards

\* a call of getAttackCard or getDefendCard of the SimpleEnhancedAgent
CardAsked == search.via \in {"getAttackCard", "getDefendCard"}

\* C18: SimpleEnhancedAgent searches only when the deck is empty and there is
\* more than one option: with cards in the deck it returns the choice of the
\* SimpleAgent policy, with an empty deck and one option it returns that option,
\* and in both cases getValueRec is not called; otherwise it is called
C18_SearchTrigger ==
    CardAsked =>
        /\ Len(search.before.deck) > 0 =>
               /\ search.values = <<>>
               /\ search.choice = SimpleAgent_policy(search.cards, search.before.trumpCard.suit)
        /\ Len(search.before.deck) = 0 /\ Len(search.cards) = 1 =>
               /\ search.values = <<>>
               /\ search.choice = search.cards[1]
        /\ Len(search.before.deck) = 0 /\ Len(search.cards) > 1 =>
               Len(search.values) = Len(search.cards)

\* several options and a deck that is not empty: the policy's card, no search
C18_Witness ==
    /\ search.via = "getAttackCard"
    /\ Len(search.before.deck) > 0
    /\ Len(search.cards) > 1
    /\ search.values = <<>>
    /\ search.choice # search.cards[1]

\* a single option and an empty deck
C18_SingleWitness ==
    /\ search.via = "getDefendCard"
    /\ Len(search.before.deck) = 0
    /\ search.cards = <<END_ROUND>>
    /\ search.choice = END_ROUND

\* a search
C18_SearchWitness ==
    /\ CardAsked
    /\ Len(search.values) > 1

\* the game of a getValueRec call after the move is applied and a finished round
\* is resolved
NodeGame == MoveOn(search.before, pOne, search.choice)

\* C19: at a search node where the game has ended once the move is applied and
\* a finished round is resolved, getValueRec returns exactly 1 when this agent
\* has won and exactly 0 when it has lost, whatever depth remains: the value
\* model is not consulted and the search goes no deeper
C19_TerminalValues ==
    search.via = "getValueRec" /\ gameOver(NodeGame) =>
        /\ isWinner(NodeGame, search.self) => search.values = <<Unit>>
        /\ isLoser(NodeGame, search.self) => search.values = <<0>>

\* a node at depth 0 where the agent has lost
C19_Witness ==
    /\ search.via = "getValueRec"
    /\ search.depth = 0
    /\ gameOver(NodeGame)
    /\ isLoser(NodeGame, search.self)
    /\ search.values = <<0>>

\* a node with depth left where the agent has won
C19_WonWitness ==
    /\ search.via = "getValueRec"
    /\ search.depth = SearchDepth
    /\ isWinner(NodeGame, search.self)
    /\ search.values = <<Unit>>

\* depth-limited minimax without pruning: the value of the game g0 for the agent
\* self once the player before agent has made the move card
RECURSIVE PlainValue(_, _, _, _, _)
PlainValue(self, g0, agent, card, depth) ==
    LET g == MoveOn(g0, Other(agent), card)
        cards == NodeCards(g, agent)
        below == IF Other(agent) = self.playerNum THEN depth - 1 ELSE depth
    IN  IF gameOver(g) /\ isWinner(g, self.playerNum) THEN Unit
        ELSE IF gameOver(g) /\ isLoser(g, self.playerNum) THEN 0
        ELSE IF depth = 0 THEN LeafValue(self, g, agent)
        ELSE IF agent = self.playerNum
        THEN SetMax({NegInf} \cup {PlainValue(self, g, Other(agent), cards[i], below) :
                                      i \in 1 .. Len(cards)})
        ELSE SetMin({PosInf} \cup {PlainValue(self, g, Other(agent), cards[i], below) :
                                      i \in 1 .. Len(cards)})

\* the plain minimax values of the options of the last search, in their order
PlainValues ==
    [i \in 1 .. Len(search.cards) |->
        PlainValue(Agent(search.self, search.depth, classWeights.attack, classWeights.defend),
                   search.before, Other(search.self), search.cards[i], search.depth)]

\* the options whose value in vals is the greatest
BestOf(cards, vals) ==
    {cards[i] : i \in {j \in 1 .. Len(cards) : \A k \in 1 .. Len(cards) : vals[k] <= vals[j]}}

\* card is the one element of best, when best has one element only
TheOnly(best, card) == Cardinality(best) = 1 => card \in best

\* C20: the choice of minimaxChoice does not depend on the order of the options:
\* whenever one option alone has the greatest depth-limited minimax value, that
\* option is returned for every order of the list, as minimax without pruning
\* would
C20_OrderInvariant ==
    search.via = "minimaxChoice" =>
        TheOnly(BestOf(search.cards, PlainValues), search.choice)

\* three options in an order in which the best one is not the first
C20_Witness ==
    /\ search.via = "minimaxChoice"
    /\ Len(search.cards) > 2
    /\ Cardinality(BestOf(search.cards, PlainValues)) = 1
    /\ search.choice # search.cards[1]
    /\ search.cards # NodeCards(search.before, pOne)


\* the nodes of the last search
SearchNodes ==
    nodesOfChoice(Agent(search.self, search.depth, classWeights.attack, classWeights.defend),
                  search.before, search.cards)

\* n keeps the count of the depth: a node that goes on, or is cut off, has the
\* starting depth less the agent's own moves, and a node that is cut off has the
\* agent to move
DepthCounted(n, start, self) ==
    /\ n.kind # "over" => n.depth = start - n.own
    /\ n.kind = "leaf" => n.depth = 0 /\ n.agent = self

\* C21: in a search of starting depth at least 1 the depth goes down by one with
\* every move of the searching agent and stays with every move of the opponent:
\* at every node the depth is the starting depth less the agent's own moves on
\* the path, and every leaf of the depth cut-off has the agent to move
C21_DepthCountsOwnMoves ==
    search.via = "minimaxChoice" /\ search.depth >= 1 =>
        \A n \in SearchNodes : DepthCounted(n, search.depth, search.self)

\* a search of depth 2 that is cut off after two moves of the agent and one or
\* more of the opponent
C21_Witness ==
    /\ search.via = "minimaxChoice"
    /\ search.depth = SearchDepth
    /\ \E n \in SearchNodes : n.kind = "leaf" /\ n.own = 2 /\ n.agent = search.self

\* a search of depth 1 with a leaf and a node that goes on
C21_DepthOneWitness ==
    /\ search.via = "minimaxChoice"
    /\ search.depth = 1
    /\ \E n \in SearchNodes : n.kind = "leaf"
    /\ \E n \in SearchNodes : n.kind = "loop" /\ n.agent # search.self /\ n.depth = 0


\* playGame is about to call attack() or defend(): in the inner loop, or for
\* the tie check after the main loop
MoveDue ==
    \/ pc \in {"attack", "defend"}
    \/ /\ pc = "outcome"
       /\ \/ Len(hand[defender]) = 0 /\ Len(hand[attacker]) = 1
          \/ Len(hand[defender]) = 1 /\ Len(hand[attacker]) = 0

\* the cards of the deck, the two hands, the table and the trash, one after another
AllPlaces == deck \o hand[pOne] \o hand[pTwo] \o table \o trashCards

\* C22: whenever playGame asks a player to move, the tie checks included, every
\* card of the deck played with is in exactly one of the deck, the two hands, the
\* table and the trash
C22_CardConservation ==
    MoveDue => Len(AllPlaces) = DeckSize /\ Range(AllPlaces) = DeckCards

\* a move is asked for after a round the defender lost and refills: cards have
\* been picked up, and drawn from the deck
C22_Witness ==
    /\ pc \in {"attack", "defend"}
    /\ lastRound.how = "attackerWins"
    /\ Len(hand[defender]) > HandSize
    /\ Len(deck) < DeckSize - 2 * HandSize

\* a move is asked for after a round the defender won: cards are in the trash
C22_TrashWitness ==
    /\ pc \in {"attack", "defend"}
    /\ Len(trashCards) > 0
    /\ Len(table) > 0

\* the tie check is asked for, with cards on the table
C22_TieCheckWitness ==
    /\ pc = "outcome"
    /\ MoveDue
    /\ Len(table) > 0


C23_DefendWitness ==
    /\ lastMove.call = "defend"
    /\ lastMove.sel.kind = "chooseDefenseCard"
    /\ lastRound.how \in {"attackerWins", "defenderWins"}
    /\ Len(lastMove.tableBefore) = 1

\* a round other than the first starts
C23_RoundWitness ==
    /\ pc = "attack"
    /\ Len(table) = 0
    /\ lastRound.how \in {"attackerWins", "defenderWins"}


\* the cards a player draws when need cards are missing from its hand and the
\* deck is d: the top of the deck is its end
Drawn(d, need) ==
    [k \in 1 .. (IF need < 0 THEN 0 ELSE IF need > Len(d) THEN Len(d) ELSE need) |->
        d[Len(d) + 1 - k]]

\* the deck d without its n top cards
Under(d, n) == SubSeq(d, 1, Len(d) - n)

\* the hands after the round: a was the attacker and held hA, d was the defender
\* and held hD; a draws first
RefilledInOrder(a, hA, d, hD) ==
    /\ hand'[a] = hA \o Drawn(deck, HandSize - Len(hA))
    /\ hand'[d] = hD \o Drawn(Under(deck, Len(hand'[a]) - Len(hA)), HandSize - Len(hD))
    /\ deck' = Under(deck, (Len(hand'[a]) - Len(hA)) + (Len(hand'[d]) - Len(hD)))

\* the round ends as won by the defender
RoundToDefender ==
    /\ trashCards' = trashCards \o table
    /\ attacker' = defender
    /\ defender' = attacker
    /\ opponentHand' = opponentHand
    /\ RefilledInOrder(attacker, hand[attacker], defender, hand[defender])

\* the round ends as won by the attacker
RoundToAttacker ==
    /\ trashCards' = trashCards
    /\ attacker' = attacker
    /\ defender' = defender
    /\ opponentHand' = [opponentHand EXCEPT ![attacker] = @ \o table]
    /\ RefilledInOrder(attacker, hand[attacker], defender, hand[defender] \o table)

\* C24: a round after which the game goes on is resolved in one of two ways,
\* never both and never neither: the defender wins (the table goes to the trash,
\* the roles swap), or the attacker wins (the defender takes the table, the
\* attacker notes its cards as the opponent's and stays attacker); either way the
\* attacker of the round draws before its defender, and the next round starts
\* with an empty table
C24_RoundResolution ==
    [][pc = "resolve" /\ pc' = "attack" =>
          /\ lastRound'.how \in {"defenderWins", "attackerWins"}
          /\ lastRound'.how = "defenderWins" => RoundToDefender
          /\ lastRound'.how = "attackerWins" => RoundToAttacker
          /\ RoundToDefender # RoundToAttacker
          /\ table' = <<>>]_vars

\* a round was won by the defender, and both players have drawn
C24_Witness ==
    /\ pc = "attack"
    /\ lastRound.how = "defenderWins"
    /\ Len(trashCards) > 0
    /\ Len(table) = 0
    /\ attacker # lastRound.attacker
    /\ Len(deck) = 0

\* a round was won by the attacker
C24_AttackerWitness ==
    /\ pc = "attack"
    /\ lastRound.how = "attackerWins"
    /\ Len(opponentHand[attacker]) > 0
    /\ Len(table) = 0
    /\ attacker = lastRound.attacker


\* the hand and the table an update sees through the state tuple s when the
\* lists are hands and tbl
SeenHand(s, hands) == hands[s.who]
SeenTable(s, tbl) == IF s.tblLive THEN tbl ELSE s.tblCards

\* the pre-state s, captured just before the last move, shows at the update that
\* follows this move the hand and the table of before the last move
SnapshotOf(s) ==
    ~s.isNone /\ s.who = lastMove.who =>
        /\ SeenHand(s, hand') = lastMove.handBefore
        /\ SeenTable(s, table') = lastMove.tableBefore

\* C25: the pre-state of an intermediate TD update is a snapshot: at
\* TDUpdateAttack(preAttackState, postDefendState, 0), after the defence, the hand
\* and the table seen through preAttackState are those of before the attack it was
\* captured ahead of, and likewise at TDUpdateDefend(preDefendState,
\* postAttackState, 0) for the defence
C25_PreStateIsSnapshot ==
    [][/\ pc = "defend" /\ train /\ lastMove.call = "attack" => SnapshotOf(preAttackState)
       /\ pc = "attack" /\ train /\ lastMove.call = "defend" => SnapshotOf(preDefendState)]_vars


\* the pre-state playGame passes to the update call c
PreStateOf(c) == IF c.role = "defend" THEN preDefendState ELSE preAttackState

\* the step has made TD updates: those of an attack or a defence that returned,
\* or the terminal ones
UpdatesMade ==
    /\ train
    /\ \/ pc \in {"attack", "defend"} /\ lastMove'.raised = "none"
       \/ pc = "outcome" /\ lastUpdates' # <<>>

\* C26: a TD update with a pre-state is given the pre-state captured from the
\* view of the player it is invoked on: preDefendState at TDUpdateDefend, also
\* at the first attack of a round after the roles have swapped, and
\* preAttackState at TDUpdateAttack
C26_PreStateOfSamePlayer ==
    [][UpdatesMade =>
          \A i \in 1 .. Len(lastUpdates') :
              ~lastUpdates'[i].preNone => PreStateOf(lastUpdates'[i]).who = lastUpdates'[i].who]_vars

\* the same for TDUpdateAttack alone
C26_AttackSide ==
    [][UpdatesMade =>
          \A i \in 1 .. Len(lastUpdates') :
              ~lastUpdates'[i].preNone /\ lastUpdates'[i].role = "attack" =>
                  preAttackState.who = lastUpdates'[i].who]_vars


\* s is a sub-collection of t: every card as often in t as in s, or more
SubCollection(s, t) ==
    \A c \in Range(s) : Len(SelectSeq(s, LAMBDA x : x = c)) <= Len(SelectSeq(t, LAMBDA x : x = c))

\* what p knows is right: the cards it holds the opponent to have are in the
\* opponent's hand, and its unseen cards are neither in its own hand nor cards
\* that have been played (on the table, in the trash, or picked up again)
KnowledgeRight(p) ==
    /\ SubCollection(opponentHand[p], hand[Other(p)])
    /\ unseenCards[p] \cap (Range(hand[p]) \cup Range(table) \cup Range(trashCards)
                            \cup Range(opponentHand[p])) = {}

\* playGame is running: from the first attack to its return
InGame == pc \in {"attack", "defend", "resolve", "outcome", "reset"}

\* C27: in a game the opponentHand of a player is a sub-collection of the hand of
\* the opponent, and its unseenCards hold no card of its own hand and no card
\* the opponent has played
C27_OpponentKnowledge == InGame => \A p \in Players : KnowledgeRight(p)

\* the same up to the tie check
C27_BeforeTieCheck ==
    pc \in {"attack", "defend", "resolve", "outcome"} => \A p \in Players : KnowledgeRight(p)


\* playGame has returned with its outcome declared: a tie, or a winner with an
\* empty hand against a player who holds cards; the deck is empty
Declared ==
    /\ result \in {"tie"} \cup Players
    /\ Len(deck) = 0
    /\ result \in Players => Len(hand[result]) = 0 /\ Len(hand[Other(result)]) > 0

\* the step that declares the outcome counts one win for the winner, none on a tie
WinCounted ==
    wins' = IF result' \in Players THEN [wins EXCEPT ![result'] = @ + 1] ELSE wins

\* C28: every game ends: playGame, once called, returns after finitely many
\* moves with a winner or a tie declared; the deck is then empty, a winner holds
\* no card and the other player holds one or more, and the wins of one player,
\* the winner, have gone up by one (of none on a tie)
C28_GameTerminates ==
    /\ (pc = "playGame") ~> (pc = "reset")
    /\ [](pc = "reset" => Declared)
    /\ [][pc = "outcome" => WinCounted]_vars

\* a game has ended with a winner
C28_Witness ==
    /\ pc = "reset"
    /\ result \in Players
    /\ wins[result] = 1
    /\ wins[Other(result)] = 0
    /\ Len(hand[result]) = 0
    /\ Len(trashCards) > 0

\* a game has ended in a tie
C28_TieWitness ==
    /\ pc = "reset"
    /\ result = "tie"
    /\ wins = [p \in Players |-> 0]

====
